---- MODULE Spec2Model ----
(***************************************************************************)
(* Model of ebook_calibre_analyzer: the three-stage comparison pipeline of *)
(* run_analyze (size, first-1KB hash, full hash), the hashing orchestrator,*)
(* the within-datalake deduplication, LibraryComparator.find_unique_files  *)
(* and the CPU backend's hash_batch.                                       *)
(*                                                                         *)
(* Python objects are records of a heap (rec) addressed by an identifier,  *)
(* which is also the file's absolute path; lists hold identifiers, so two  *)
(* lists that hold the same EbookFile object see the same fields.          *)
(* Optional[bytes] values are integers: None is -1, the empty bytes b""    *)
(* is 0, and a SHA-256 digest is a positive integer.                       *)
(***************************************************************************)
EXTENDS Integers, Sequences, FiniteSets, TLC

\* ---------------------------------------------------------------- bounds
MaxEbooks == 2
MaxCalibre == 1
MaxBatch == 3

\* ------------------------------------------------------- value encodings
NoneVal == -1
EmptyBytes == 0

EbookIds == 1..MaxEbooks
CalibreIds == (MaxEbooks + 1)..(MaxEbooks + MaxCalibre)
Ids == EbookIds \cup CalibreIds

\* File contents on disk: the byte length, the bytes of the first 1024
\* bytes (head) and the bytes after them (tail).
Contents ==
    { [size |-> 1, head |-> 1, tail |-> 1],
      [size |-> 1, head |-> 1, tail |-> 2],
      [size |-> 1, head |-> 2, tail |-> 1],
      [size |-> 2, head |-> 1, tail |-> 1] }

NoContent == [size |-> 0, head |-> 0, tail |-> 0]

\* f.read(1024): the first 1024 bytes of the file
First1K(c) == c.head

\* the whole byte stream of the file, as read chunk by chunk
AllBytes(c) == c.size * 100 + c.head * 10 + c.tail

\* hashlib.sha256(...).digest(): injective on the modelled byte strings and
\* never the empty bytes
Sha256(data) == data + 1

\* ------------------------------------------------------------- sequences
Range(s) == { s[i] : i \in 1..Len(s) }

RECURSIVE SeqsUpTo(_, _)
SeqsUpTo(S, n) ==
    IF n = 0 THEN { <<>> }
    ELSE LET shorter == SeqsUpTo(S, n - 1)
         IN  shorter \cup { Append(s, x) : s \in { t \in shorter : Len(t) = n - 1 }, x \in S }

\* the outcomes of one hashing step: which of the submitted files yield b""
FailureSets(submitted) == SUBSET Range(submitted)

\* str(path): the string form of a Path; a Path object never equals a string
Str(path) == path + MaxEbooks + MaxCalibre

\* discover_files_recursive(base_path, file_extensions, exclude_paths): the
\* files found under base_path, without those for which
\* "file_path in exclude_paths" holds (a Path looked up in the given set)
DiscoverFilesRecursive(paths, exclude_paths) ==
    SelectSeq(paths, LAMBDA file_path : file_path \notin exclude_paths)

\* ------------------------------------------------------------- variables
VARIABLES
    disk,               \* path -> content of the file on disk
    rec,                \* path -> EbookFile fields
    ebooks_files,       \* discover_files_recursive(ebooks_path, ...)
    calibre_files,      \* discover_files_recursive(calibre_path, ...)
    use_gpu,            \* args.use_gpu
    processed_files,    \* paths read from the resume CSV
    gpu_available,      \* local gpu_available of run_analyze
    gpu_threshold,      \* local gpu_threshold of run_analyze
    gpu_processor,      \* TRUE iff gpu_processor is not None
    files_to_process,   \* categorized["gpu"] + categorized["cpu"]
    ebooks_collection,  \* FileCollection of the datalake
    calibre_collection, \* FileCollection of the library
    stage1_unique,
    stage2_candidates,
    stage2_unique,
    stage3_candidates,
    stage3_unique,
    unique_files,       \* stage1_unique + stage2_unique + stage3_unique
    deduplicated_files,
    duplicates_report,
    hash_calls,         \* per backend and stage: path -> number of hash tasks submitted
    empty_results,      \* <<path, stage>> for which a backend returned b""
    found,              \* result of LibraryComparator.find_unique_files()
    preprocess_log,     \* the preprocess_files calls made so far, in order
    second_run,         \* what a second pass of the pipeline produced
    output_csv,         \* the file at output_path: the full_path column of its rows
    full_hash_log,      \* per side: the (hash, path) writes to by_full_hash, in order
    pc,                 \* position in run_analyze
    batch               \* state of one CPUHashProcessor.hash_batch call

vars == << disk, rec, ebooks_files, calibre_files, use_gpu, processed_files,
           gpu_available, gpu_threshold, gpu_processor, files_to_process, ebooks_collection,
           calibre_collection, stage1_unique, stage2_candidates,
           stage2_unique, stage3_candidates, stage3_unique, unique_files,
           deduplicated_files, duplicates_report, hash_calls, empty_results,
           found, preprocess_log, second_run, output_csv, full_hash_log, pc, batch >>

\* ---------------------------------------------------------------- models.py
\* EbookFile(...) as built by discover_files_recursive: no hash is set
NewEbookFile(c) ==
    [ file_size |-> c.size,
      size_hash |-> NoneVal,
      first_1k_hash |-> NoneVal,
      full_hash |-> NoneVal,
      processing_method |-> "cpu",
      processing_status |-> "pending" ]

\* EbookFile.get_size_hash: the value returned
GetSizeHash(r) == IF r.size_hash = NoneVal THEN r.file_size ELSE r.size_hash

\* EbookFile.get_size_hash: the field it caches
CacheSizeHash(r) == [r EXCEPT !.size_hash = GetSizeHash(r)]

\* FileCollection.__init__
EmptyCollection ==
    [ files |-> <<>>,
      by_size |-> <<>>,
      by_size_and_1k |-> <<>>,
      by_full_hash |-> <<>> ]

\* d[k].append(v) on a defaultdict(list)
DictAppend(d, k, v) ==
    IF k \in DOMAIN d THEN [d EXCEPT ![k] = Append(@, v)]
    ELSE d @@ (k :> <<v>>)

\* a dict write that keeps the value a key already has
DictPutIfAbsent(d, k, v) ==
    IF k \in DOMAIN d THEN d
    ELSE d @@ (k :> v)

\* d[k] = v on a dict: the last write wins
DictPut(d, k, v) ==
    IF k \in DOMAIN d THEN [d EXCEPT ![k] = v]
    ELSE d @@ (k :> v)

\* d.get(k, [])
DictGetList(d, k) == IF k \in DOMAIN d THEN d[k] ELSE <<>>

\* FileCollection.add_file, for the record r stored at path id
AddFileTo(coll, id, r) ==
    LET size == GetSizeHash(r)
        c1 == [coll EXCEPT !.files = Append(@, id),
                           !.by_size = DictAppend(@, size, id)]
        c2 == IF r.first_1k_hash # NoneVal
              THEN [c1 EXCEPT !.by_size_and_1k = DictAppend(@, <<size, r.first_1k_hash>>, id)]
              ELSE c1
    IN  IF r.full_hash # NoneVal
        THEN [c2 EXCEPT !.by_full_hash = DictPut(@, r.full_hash, id)]
        ELSE c2

\* FileCollection.get_files_by_size_and_1k
GetFilesBySizeAnd1k(coll, size, hash_1k) ==
    DictGetList(coll.by_size_and_1k, <<size, hash_1k>>)

\* FileCollection.get_file_by_full_hash: None when the key is missing
GetFileByFullHash(coll, hash_value) ==
    IF hash_value \in DOMAIN coll.by_full_hash THEN coll.by_full_hash[hash_value]
    ELSE NoneVal

\* FileCollection.get_unique_sizes
GetUniqueSizes(coll) == DOMAIN coll.by_size

\* ---------------------------------------------------------- preprocessing.py
\* parse_size(args.gpu_threshold) and the 100MB default of preprocess_files,
\* in the model's size unit
GpuThresholdArg == 2
DefaultGpuThreshold == 2

\* the threshold preprocess_files works with: 100MB by default when the
\* caller passes None and the GPU is available (None otherwise)
EffectiveThreshold(available, threshold) ==
    IF threshold = NoneVal /\ available THEN DefaultGpuThreshold ELSE threshold

\* the GPU for every record once it is available, whatever the size
MethodForAnySize(r, available, threshold) == IF available THEN "gpu" ELSE "cpu"

\* the processing_method preprocess_files assigns to a record it does not skip
MethodFor(r, available, threshold) ==
    IF available /\ EffectiveThreshold(available, threshold) # NoneVal
       /\ r.file_size >= EffectiveThreshold(available, threshold)
    THEN "gpu" ELSE "cpu"

\* preprocess_files: the three lists and the heap with the methods assigned
PreprocessFiles(heap, files, available, threshold, processed) ==
    LET skipped(id) == Str(id) \in processed
        kept(id) == ~skipped(id)
        isGpu(id) == kept(id) /\ MethodFor(heap[id], available, threshold) = "gpu"
        isCpu(id) == kept(id) /\ MethodFor(heap[id], available, threshold) = "cpu"
    IN  [ gpu |-> SelectSeq(files, isGpu),
          cpu |-> SelectSeq(files, isCpu),
          skip |-> SelectSeq(files, skipped),
          heap |-> [ id \in DOMAIN heap |->
                       IF id \in Range(files) /\ kept(id)
                       THEN [heap[id] EXCEPT !.processing_method =
                                MethodFor(heap[id], available, threshold)]
                       ELSE heap[id] ] ]

\* ------------------------------------------------------------ hashing/cpu.py
\* _hash_first_1k_worker: b"" when the file cannot be opened or read
HashFirst1kWorker(id, unreadable) ==
    IF id \in unreadable THEN EmptyBytes ELSE Sha256(First1K(disk[id]))

\* _hash_full_file_worker: b"" when the file cannot be opened or read
HashFullFileWorker(id, unreadable) ==
    IF id \in unreadable THEN EmptyBytes ELSE Sha256(AllBytes(disk[id]))

\* the worker function hash_batch selects for a stage
WorkerFunc(stage, id, unreadable) ==
    IF stage = "1k" THEN HashFirst1kWorker(id, unreadable)
    ELSE HashFullFileWorker(id, unreadable)

\* CPUHashProcessor.hash_batch: results[i] is the worker's result for files[i]
CpuHashBatch(files, stage, unreadable) ==
    [ i \in 1..Len(files) |-> WorkerFunc(stage, files[i], unreadable) ]

\* ------------------------------------------------------------ hashing/gpu.py
\* GPUHashProcessor.hash_full_file: the digest of the bytes staged through the
\* device, or the CPU backend's result when the read raises
GpuHashFullFile(id, unreadable) ==
    IF id \in unreadable THEN HashFullFileWorker(id, unreadable)
    ELSE Sha256(AllBytes(disk[id]))

\* GPUHashProcessor.hash_batch of an available processor
GpuHashBatch(files, stage, unreadable) ==
    IF stage = "1k" THEN CpuHashBatch(files, stage, unreadable)
    ELSE [ i \in 1..Len(files) |-> GpuHashFullFile(files[i], unreadable) ]

\* -------------------------------------------------------- comparison/stage1.py
StatusOf(heap, ids, status) ==
    [ id \in DOMAIN heap |->
        IF id \in ids THEN [heap[id] EXCEPT !.processing_status = status]
        ELSE heap[id] ]

\* a Stage 1 that reads the sizes of the datalake collection itself
Stage1CompareOwnSizes(heap, ecoll, ccoll) ==
    LET calibre_sizes == GetUniqueSizes(ecoll)
        isUnique(id) == GetSizeHash(heap[id]) \notin calibre_sizes
        isCandidate(id) == ~isUnique(id)
    IN  [ unique |-> SelectSeq(ecoll.files, isUnique),
          candidates |-> SelectSeq(ecoll.files, isCandidate),
          heap |-> StatusOf(heap, Range(ecoll.files), "size_checked") ]

\* Stage1Comparator.compare
Stage1Compare(heap, ecoll, ccoll) ==
    LET calibre_sizes == GetUniqueSizes(ccoll)
        isUnique(id) == GetSizeHash(heap[id]) \notin calibre_sizes
        isCandidate(id) == ~isUnique(id)
    IN  [ unique |-> SelectSeq(ecoll.files, isUnique),
          candidates |-> SelectSeq(ecoll.files, isCandidate),
          heap |-> StatusOf(heap, Range(ecoll.files), "size_checked") ]

\* -------------------------------------------------------- comparison/stage2.py
\* a Stage 2 that looks the record up by its size alone
Stage2CompareBySizeOnly(heap, ccoll, candidates) ==
    LET noHash(id) == heap[id].first_1k_hash = NoneVal
        calibre_matches(id) == DictGetList(ccoll.by_size, GetSizeHash(heap[id]))
        isUnique(id) == noHash(id) \/ calibre_matches(id) = <<>>
        isCandidate(id) == ~isUnique(id)
    IN  [ unique |-> SelectSeq(candidates, isUnique),
          candidates |-> SelectSeq(candidates, isCandidate),
          heap |-> StatusOf(heap, Range(candidates), "1k_hashed") ]

\* a Stage 2 that takes a (size, prefix hash) match for a duplicate and
\* passes nothing on to Stage 3
Stage2CompareFinal(heap, ccoll, candidates) ==
    LET noHash(id) == heap[id].first_1k_hash = NoneVal
        calibre_matches(id) ==
            GetFilesBySizeAnd1k(ccoll, GetSizeHash(heap[id]), heap[id].first_1k_hash)
        isUnique(id) == noHash(id) \/ calibre_matches(id) = <<>>
    IN  [ unique |-> SelectSeq(candidates, isUnique),
          candidates |-> <<>>,
          heap |-> StatusOf(heap, Range(candidates), "1k_hashed") ]

\* Stage2Comparator.compare(stage2_candidates)
Stage2Compare(heap, ccoll, candidates) ==
    LET noHash(id) == heap[id].first_1k_hash = NoneVal
        calibre_matches(id) ==
            GetFilesBySizeAnd1k(ccoll, GetSizeHash(heap[id]), heap[id].first_1k_hash)
        isUnique(id) == noHash(id) \/ calibre_matches(id) = <<>>
        isCandidate(id) == ~isUnique(id)
    IN  [ unique |-> SelectSeq(candidates, isUnique),
          candidates |-> SelectSeq(candidates, isCandidate),
          heap |-> StatusOf(heap, Range(candidates), "1k_hashed") ]

\* -------------------------------------------------------- comparison/stage3.py
\* a Stage 3 that skips a record without a full hash instead of keeping it
Stage3CompareDropsUnhashed(heap, ccoll, candidates) ==
    LET noHash(id) == heap[id].full_hash = NoneVal \/ heap[id].full_hash = EmptyBytes
        isUnique(id) ==
            ~noHash(id) /\ GetFileByFullHash(ccoll, heap[id].full_hash) = NoneVal
    IN  [ unique |-> SelectSeq(candidates, isUnique),
          heap |-> StatusOf(heap, Range(candidates), "full_hashed") ]

\* a Stage 3 that advances the status of the records it finds unique only
Stage3CompareMarksUniqueOnly(heap, ccoll, candidates) ==
    LET noHash(id) == heap[id].full_hash = NoneVal \/ heap[id].full_hash = EmptyBytes
        isUnique(id) ==
            noHash(id) \/ GetFileByFullHash(ccoll, heap[id].full_hash) = NoneVal
    IN  [ unique |-> SelectSeq(candidates, isUnique),
          heap |-> StatusOf(heap, Range(SelectSeq(candidates, isUnique)), "full_hashed") ]

\* Stage3Comparator.compare(stage3_candidates)
Stage3Compare(heap, ccoll, candidates) ==
    LET noHash(id) == heap[id].full_hash = NoneVal \/ heap[id].full_hash = EmptyBytes
        isUnique(id) ==
            noHash(id) \/ GetFileByFullHash(ccoll, heap[id].full_hash) = NoneVal
    IN  [ unique |-> SelectSeq(candidates, isUnique),
          heap |-> StatusOf(heap, Range(candidates), "full_hashed") ]

\* ------------------------------------------------------ comparison/__init__.py
\* LibraryComparator.find_unique_files
FindUniqueFilesOf(heap, ecoll, ccoll) ==
    LET s1 == Stage1Compare(heap, ecoll, ccoll)
        has1k(id) == s1.heap[id].first_1k_hash # NoneVal
        stage2_candidates_with_hash == SelectSeq(s1.candidates, has1k)
        s2 == Stage2Compare(s1.heap, ccoll, stage2_candidates_with_hash)
        hasFull(id) == s2.heap[id].full_hash # NoneVal
        stage3_candidates_with_hash == SelectSeq(s2.candidates, hasFull)
        s3 == Stage3Compare(s2.heap, ccoll, stage3_candidates_with_hash)
    IN  IF s1.candidates = <<>> \/ stage2_candidates_with_hash = <<>>
        THEN [ all_unique |-> s1.unique, heap |-> s1.heap ]
        ELSE IF s2.candidates = <<>> \/ stage3_candidates_with_hash = <<>>
        THEN [ all_unique |-> s1.unique \o s2.unique, heap |-> s2.heap ]
        ELSE [ all_unique |-> s1.unique \o s2.unique \o s3.unique, heap |-> s3.heap ]

\* ------------------------------------------------------ hashing/orchestrator.py
\* a loop that stores the hash without testing it for b""
RECURSIVE Store1kHashesUntested(_, _, _, _, _)
Store1kHashesUntested(heap, coll, files, hashes, i) ==
    IF i > Len(files) \/ i > Len(hashes) THEN [ heap |-> heap, coll |-> coll ]
    ELSE Store1kHashesUntested(
            [heap EXCEPT ![files[i]].first_1k_hash = hashes[i]],
            [coll EXCEPT !.by_size_and_1k =
                DictAppend(@, <<GetSizeHash(heap[files[i]]), hashes[i]>>, files[i])],
            files, hashes, i + 1)

\* for file, hash_value in zip(files, hashes): if hash_value: set first_1k_hash
\* and append the file to the collection's by_size_and_1k
RECURSIVE Store1kHashes(_, _, _, _, _)
Store1kHashes(heap, coll, files, hashes, i) ==
    IF i > Len(files) \/ i > Len(hashes) THEN [ heap |-> heap, coll |-> coll ]
    ELSE IF hashes[i] # EmptyBytes
    THEN Store1kHashes(
            [heap EXCEPT ![files[i]].first_1k_hash = hashes[i]],
            [coll EXCEPT !.by_size_and_1k =
                DictAppend(@, <<GetSizeHash(heap[files[i]]), hashes[i]>>, files[i])],
            files, hashes, i + 1)
    ELSE Store1kHashes(heap, coll, files, hashes, i + 1)

\* a loop that sets full_hash and leaves by_full_hash as it was
RECURSIVE StoreFullHashesNoIndex(_, _, _, _, _)
StoreFullHashesNoIndex(heap, coll, files, hashes, i) ==
    IF i > Len(files) \/ i > Len(hashes) THEN [ heap |-> heap, coll |-> coll ]
    ELSE IF hashes[i] # EmptyBytes
    THEN StoreFullHashesNoIndex([heap EXCEPT ![files[i]].full_hash = hashes[i]],
                                coll, files, hashes, i + 1)
    ELSE StoreFullHashesNoIndex(heap, coll, files, hashes, i + 1)

\* for file, hash_value in zip(files, hashes): if hash_value: set full_hash and
\* write the file into the collection's by_full_hash
RECURSIVE StoreFullHashes(_, _, _, _, _)
StoreFullHashes(heap, coll, files, hashes, i) ==
    IF i > Len(files) \/ i > Len(hashes) THEN [ heap |-> heap, coll |-> coll ]
    ELSE IF hashes[i] # EmptyBytes
    THEN StoreFullHashes(
            [heap EXCEPT ![files[i]].full_hash = hashes[i]],
            [coll EXCEPT !.by_full_hash = DictPut(@, hashes[i], files[i])],
            files, hashes, i + 1)
    ELSE StoreFullHashes(heap, coll, files, hashes, i + 1)

\* a hash_stage2_files that hashes every library record, whatever its size
HashStage2FilesOfWholeLibrary(heap, ecoll, ccoll, candidates, failed) ==
    LET calibre_1k_hashes == CpuHashBatch(ccoll.files, "1k", failed)
        c == Store1kHashes(heap, ccoll, ccoll.files, calibre_1k_hashes, 1)
        ebooks_1k_hashes == CpuHashBatch(candidates, "1k", failed)
        e == Store1kHashes(c.heap, ecoll, candidates, ebooks_1k_hashes, 1)
    IN  [ heap |-> e.heap, ecoll |-> e.coll, ccoll |-> c.coll,
          calibre_candidates |-> ccoll.files,
          cpu_1k |-> ccoll.files \o candidates ]

\* HashingOrchestrator.hash_stage2_files(stage2_candidates); failed is the set
\* of files whose worker returns b""
HashStage2FilesOf(heap, ecoll, ccoll, candidates, failed) ==
    LET stage2_sizes == { GetSizeHash(heap[id]) : id \in Range(candidates) }
        sizeMatches(id) == GetSizeHash(heap[id]) \in stage2_sizes
        calibre_stage2_candidates == SelectSeq(ccoll.files, sizeMatches)
        calibre_1k_hashes == CpuHashBatch(calibre_stage2_candidates, "1k", failed)
        c == Store1kHashes(heap, ccoll, calibre_stage2_candidates, calibre_1k_hashes, 1)
        ebooks_1k_hashes == CpuHashBatch(candidates, "1k", failed)
        e == Store1kHashes(c.heap, ecoll, candidates, ebooks_1k_hashes, 1)
    IN  [ heap |-> e.heap, ecoll |-> e.coll, ccoll |-> c.coll,
          calibre_candidates |-> calibre_stage2_candidates,
          cpu_1k |-> calibre_stage2_candidates \o candidates ]

\* orchestrator.py lines 109-113: f.processing_method == "gpu" and
\* self.gpu_processor is not None
InGpuGroup(r, has_gpu) == r.processing_method = "gpu" /\ has_gpu

\* a CPU group that takes every candidate
InCpuGroupAlways(r, has_gpu) == TRUE

\* lines 114-118: f.processing_method == "cpu" or self.gpu_processor is None
InCpuGroup(r, has_gpu) == r.processing_method = "cpu" \/ ~has_gpu

\* for file, hash_value in zip(files, hashes): the (hash, file) pairs that
\* pass "if hash_value", in the order of the loop
Written(files, hashes) ==
    LET pairs == [ i \in 1..Len(files) |-> <<hashes[i], files[i]>> ]
    IN  SelectSeq(pairs, LAMBDA pair : pair[1] # EmptyBytes)

\* HashingOrchestrator.hash_stage3_files(stage3_candidates, gpu_available,
\* gpu_threshold, processed_files); has_gpu says gpu_processor is not None
HashStage3FilesOf(heap, ecoll, ccoll, candidates, has_gpu, available, threshold, processed, failed) ==
    LET onGpu(id) == InGpuGroup(heap[id], has_gpu)
        onCpu(id) == InCpuGroup(heap[id], has_gpu)
        stage3_gpu_files == SelectSeq(candidates, onGpu)
        stage3_cpu_files == SelectSeq(candidates, onCpu)
        stage3_size_1k_set ==
            { <<GetSizeHash(heap[id]), heap[id].first_1k_hash>> :
                id \in { x \in Range(candidates) : heap[x].first_1k_hash # NoneVal } }
        keyMatches(id) ==
            /\ heap[id].first_1k_hash # NoneVal
            /\ <<GetSizeHash(heap[id]), heap[id].first_1k_hash>> \in stage3_size_1k_set
        calibre_stage3_candidates == SelectSeq(ccoll.files, keyMatches)
        calibre_categorized ==
            PreprocessFiles(heap, calibre_stage3_candidates, available, threshold, processed)
        runCalibreGpu == calibre_categorized.gpu # <<>> /\ has_gpu
        calibre_gpu_files == IF runCalibreGpu THEN calibre_categorized.gpu ELSE <<>>
        c1 == StoreFullHashes(calibre_categorized.heap, ccoll, calibre_gpu_files,
                              GpuHashBatch(calibre_gpu_files, "full", failed), 1)
        c2 == StoreFullHashes(c1.heap, c1.coll, calibre_categorized.cpu,
                              CpuHashBatch(calibre_categorized.cpu, "full", failed), 1)
        e1 == StoreFullHashes(c2.heap, ecoll, stage3_gpu_files,
                              GpuHashBatch(stage3_gpu_files, "full", failed), 1)
        e2 == StoreFullHashes(e1.heap, e1.coll, stage3_cpu_files,
                              CpuHashBatch(stage3_cpu_files, "full", failed), 1)
    IN  [ heap |-> e2.heap, ecoll |-> e2.coll, ccoll |-> c2.coll,
          calibre_candidates |-> calibre_stage3_candidates,
          calibre_categorized |-> calibre_categorized,
          gpu_full |-> calibre_gpu_files \o stage3_gpu_files,
          cpu_full |-> calibre_categorized.cpu \o stage3_cpu_files,
          calibre_written |->
              Written(calibre_gpu_files, GpuHashBatch(calibre_gpu_files, "full", failed))
              \o Written(calibre_categorized.cpu,
                         CpuHashBatch(calibre_categorized.cpu, "full", failed)),
          ebooks_written |->
              Written(stage3_gpu_files, GpuHashBatch(stage3_gpu_files, "full", failed))
              \o Written(stage3_cpu_files,
                         CpuHashBatch(stage3_cpu_files, "full", failed)) ]

\* -------------------------------------------------- __main__.py: deduplication
Truthy(h) == h # NoneVal /\ h # EmptyBytes

\* a report that names full_hash whatever the key was
DedupMethodAlwaysFull(r) == "full_hash"

\* the kind of key the deduplication loop files a record under
DedupMethod(r) ==
    IF Truthy(r.full_hash) THEN "full_hash"
    ELSE IF Truthy(r.first_1k_hash) THEN "size+1k_hash"
    ELSE "size_only"

\* a key that is the size alone, whatever hashes the record has
DedupKeySizeOnly(r) == <<GetSizeHash(r)>>

\* the key itself: full hash, (size, 1KB hash) or size
DedupKey(r) ==
    IF Truthy(r.full_hash) THEN <<r.full_hash>>
    ELSE IF Truthy(r.first_1k_hash) THEN <<GetSizeHash(r), r.first_1k_hash>>
    ELSE <<GetSizeHash(r)>>

\* the three dictionaries seen_hashes, seen_size_1k and seen_sizes
SeenOf(st, method) ==
    IF method = "full_hash" THEN st.seen_hashes
    ELSE IF method = "size+1k_hash" THEN st.seen_size_1k
    ELSE st.seen_sizes

Remember(st, method, key, id) ==
    IF method = "full_hash" THEN [st EXCEPT !.seen_hashes = DictPut(@, key, id)]
    ELSE IF method = "size+1k_hash" THEN [st EXCEPT !.seen_size_1k = DictPut(@, key, id)]
    ELSE [st EXCEPT !.seen_sizes = DictPut(@, key, id)]

\* a loop that drops a duplicate without reporting it
RECURSIVE DedupLoopDropsSilently(_, _, _, _)
DedupLoopDropsSilently(heap, files, i, st) ==
    IF i > Len(files) THEN st
    ELSE LET id == files[i]
             method == DedupMethod(heap[id])
             key == DedupKey(heap[id])
         IN  IF key \notin DOMAIN SeenOf(st, method)
             THEN DedupLoopDropsSilently(heap, files, i + 1,
                    [Remember(st, method, key, id) EXCEPT
                        !.deduplicated_files = Append(@, id)])
             ELSE DedupLoopDropsSilently(heap, files, i + 1, st)

\* for file in unique_files: ... (the loop of run_analyze)
RECURSIVE DedupLoop(_, _, _, _)
DedupLoop(heap, files, i, st) ==
    IF i > Len(files) THEN st
    ELSE LET id == files[i]
             method == DedupMethod(heap[id])
             key == DedupKey(heap[id])
         IN  IF key \notin DOMAIN SeenOf(st, method)
             THEN DedupLoop(heap, files, i + 1,
                    [Remember(st, method, key, id) EXCEPT
                        !.deduplicated_files = Append(@, id)])
             ELSE DedupLoop(heap, files, i + 1,
                    [st EXCEPT !.duplicates_report = Append(@,
                        [ duplicate_path |-> id,
                          original_path |-> SeenOf(st, method)[key],
                          method |-> method,
                          file_size |-> heap[id].file_size ])])

Deduplicate(heap, files) ==
    DedupLoop(heap, files, 1,
        [ seen_hashes |-> <<>>, seen_size_1k |-> <<>>, seen_sizes |-> <<>>,
          deduplicated_files |-> <<>>, duplicates_report |-> <<>> ])

\* ------------------------------------------------------- __main__.py: run_analyze
NoCalls == [ id \in Ids |-> 0 ]

\* one more worker task for every file of the list
Count(calls, files) ==
    [ id \in Ids |-> calls[id] + Cardinality({ i \in 1..Len(files) : files[i] = id }) ]

\* no hash_batch call is in progress
\* ------------------------------------------------------------ csv_handler.py
\* no file at output_path
NoCsv == [ exists |-> FALSE, rows |-> {} ]

\* a CSV file whose rows have the given strings in their full_path column
CsvOf(paths) == [ exists |-> TRUE, rows |-> paths ]

\* CSVHandler.get_processed_files(): the full_path column of the rows
GetProcessedFiles(csv) == IF csv.exists THEN csv.rows ELSE {}

\* __main__.py lines 312-316: the file at output_path is unlinked, then
\* write_batch(files) and flush() of a new handler write the header and a row
\* per file; write_batch returns at once when there are no files
WriteCsv(csv, files) ==
    IF files = <<>> THEN NoCsv
    ELSE CsvOf({ Str(files[i]) : i \in 1..Len(files) })

IdleBatch ==
    [ files |-> <<>>, stage |-> "1k", results |-> <<>>, future_to_index |-> <<>>,
      task |-> <<>>, outcome |-> <<>>, first |-> 0, state |-> "idle" ]

\* no second pass has been made
NoRun == [ made |-> FALSE ]

\* nothing has been written to either by_full_hash
NoWrites == [ ebooks |-> <<>>, calibre |-> <<>> ]

\* add_file writes by_full_hash[file.full_hash] = file when the hash is set
LogAddFile(log, side, id, r) ==
    IF r.full_hash # NoneVal
    THEN [log EXCEPT ![side] = Append(@, <<r.full_hash, id>>)]
    ELSE log

\* the orchestrator writes by_full_hash[hash_value] = file for the written
\* (hash, file) pairs of one hash_stage3_files call
LogStored(log, side, written) == [log EXCEPT ![side] = @ \o written]

\* some hash has been computed
AnyHashed(calls) ==
    \E id \in Ids : calls.cpu_1k[id] + calls.cpu_full[id] + calls.gpu_full[id] > 0

\* one preprocess_files call: the records it assigned a processing_method to,
\* the flags it was given, and whether a hash had been computed before it
LoggedCall(side, categorized, available, threshold, calls) ==
    [ side |-> side,
      assigned |-> Range(categorized.gpu) \cup Range(categorized.cpu),
      gpu_available |-> available,
      gpu_threshold |-> threshold,
      after_hashing |-> AnyHashed(calls) ]

\* a local variable of a function: its value is computed once, when it is
\* assigned, and the rest of the function works with that value
Bind(value, Rest(_)) == CHOOSE out \in { Rest(v) : v \in { value } } : TRUE

\* what a run returns to the caller that compares two runs
RunResult(heap, h3, hash3, merged) ==
    Bind(Deduplicate(heap, merged), LAMBDA d :
        [ made |-> TRUE, heap |-> heap, ecoll |-> h3.ecoll, ccoll |-> h3.ccoll,
          unique_files |-> merged,
          calibre_categorized |-> h3.calibre_categorized,
          hashed_full |-> hash3,
          calibre_written |-> h3.calibre_written,
          ebooks_written |-> h3.ebooks_written,
          deduplicated_files |-> d.deduplicated_files,
          duplicates_report |-> d.duplicates_report ])

\* find_unique_files in place of the three comparators of run_analyze
RunPipelineViaFindUniqueFiles(heap, ecoll, ccoll, has_gpu, available, threshold, processed, failed_1k, failed_full) ==
    Bind(Stage1Compare(heap, ecoll, ccoll), LAMBDA s1 :
    Bind(HashStage2FilesOf(s1.heap, ecoll, ccoll, s1.candidates, failed_1k), LAMBDA h2 :
    Bind(Stage2Compare(h2.heap, h2.ccoll, s1.candidates), LAMBDA s2 :
    Bind(HashStage3FilesOf(s2.heap, h2.ecoll, h2.ccoll, s2.candidates, has_gpu,
                           available, threshold, processed, failed_full), LAMBDA h3 :
    Bind(FindUniqueFilesOf(h3.heap, h3.ecoll, h3.ccoll), LAMBDA f :
        RunResult(f.heap, h3, s2.candidates # <<>>, f.all_unique))))))

\* run_analyze, lines 188-298, on collections that are already built
RunPipeline(heap, ecoll, ccoll, has_gpu, available, threshold, processed, failed_1k, failed_full) ==
    Bind(Stage1Compare(heap, ecoll, ccoll), LAMBDA s1 :
    Bind(IF s1.candidates # <<>>
         THEN HashStage2FilesOf(s1.heap, ecoll, ccoll, s1.candidates, failed_1k)
         ELSE [ heap |-> s1.heap, ecoll |-> ecoll, ccoll |-> ccoll ], LAMBDA h2 :
    Bind(IF s1.candidates # <<>>
         THEN Stage2Compare(h2.heap, h2.ccoll, s1.candidates)
         ELSE [ unique |-> <<>>, candidates |-> <<>>, heap |-> h2.heap ], LAMBDA s2 :
    Bind(IF s2.candidates # <<>>
         THEN HashStage3FilesOf(s2.heap, h2.ecoll, h2.ccoll, s2.candidates, has_gpu,
                                available, threshold, processed, failed_full)
         ELSE [ heap |-> s2.heap, ecoll |-> h2.ecoll, ccoll |-> h2.ccoll,
                calibre_categorized |-> [ gpu |-> <<>>, cpu |-> <<>> ],
                calibre_written |-> <<>>, ebooks_written |-> <<>> ], LAMBDA h3 :
    Bind(IF s2.candidates # <<>>
         THEN Stage3Compare(h3.heap, h3.ccoll, s2.candidates)
         ELSE [ unique |-> <<>>, heap |-> h3.heap ], LAMBDA s3 :
        RunResult(s3.heap, h3, s2.candidates # <<>>,
                  s1.unique \o s2.unique \o s3.unique))))))

\* a hashing step that raises as soon as a backend returned b""
AfterHashingRaises(failed, next) == IF failed # {} THEN "aborted" ELSE next

\* where run_analyze continues after hash_stage2_files / hash_stage3_files:
\* the orchestrator skips an empty result ("if hash_value:") and returns
AfterHashing(failed, next) == next

pipelineVars ==
    << disk, rec, ebooks_files, calibre_files, use_gpu, processed_files,
       gpu_available, gpu_threshold, gpu_processor, files_to_process,
       ebooks_collection, calibre_collection, stage1_unique, stage2_candidates,
       stage2_unique, stage3_candidates, stage3_unique, unique_files,
       deduplicated_files, duplicates_report, hash_calls, empty_results,
       found, preprocess_log, second_run, output_csv, full_hash_log, pc >>

\* The two discovered lists, each record as discovery builds it, and the
\* command line; nothing has been categorised or compared yet.
\* the paths a resume CSV can name: the full_path strings of files on disk
ResumeSets(e, c) ==
    SUBSET { Str(id) : id \in (1..Len(e)) \cup ((MaxEbooks + 1)..(MaxEbooks + Len(c))) }

\* run_analyze up to line 117: without --resume the processed set is empty,
\* with --resume it is what get_processed_files() reads from the CSV
InitRun(resume) ==
    /\ \E e \in SeqsUpTo(Contents, MaxEbooks), c \in SeqsUpTo(Contents, MaxCalibre) :
          /\ processed_files \in IF resume THEN ResumeSets(e, c) \ { {} } ELSE { {} }
          /\ ebooks_files =
                DiscoverFilesRecursive([ i \in 1..Len(e) |-> i ], processed_files)
          /\ calibre_files =
                DiscoverFilesRecursive([ i \in 1..Len(c) |-> MaxEbooks + i ],
                                       processed_files)
          /\ disk = [ id \in Ids |->
                        IF id \in 1..Len(e) THEN e[id]
                        ELSE IF id \in (MaxEbooks + 1)..(MaxEbooks + Len(c))
                        THEN c[id - MaxEbooks]
                        ELSE NoContent ]
    /\ rec = [ id \in Ids |-> NewEbookFile(disk[id]) ]
    /\ use_gpu \in BOOLEAN
    /\ gpu_available = FALSE
    /\ gpu_threshold = NoneVal
    /\ gpu_processor = FALSE
    /\ files_to_process = <<>>
    /\ ebooks_collection = EmptyCollection
    /\ calibre_collection = EmptyCollection
    /\ stage1_unique = <<>>
    /\ stage2_candidates = <<>>
    /\ stage2_unique = <<>>
    /\ stage3_candidates = <<>>
    /\ stage3_unique = <<>>
    /\ unique_files = <<>>
    /\ deduplicated_files = <<>>
    /\ duplicates_report = <<>>
    /\ hash_calls = [ cpu_1k |-> NoCalls, cpu_full |-> NoCalls, gpu_full |-> NoCalls ]
    /\ empty_results = {}
    /\ found = <<>>
    /\ preprocess_log = <<>>
    /\ second_run = NoRun
    /\ output_csv = IF resume THEN CsvOf(processed_files) ELSE NoCsv
    /\ full_hash_log = NoWrites
    /\ pc = "categorize"
    /\ batch = IdleBatch

Init == InitRun(FALSE)

InitResume == InitRun(TRUE)

\* lines 120-139: the GPU flags and preprocess_files on the datalake list
Categorize ==
    /\ pc = "categorize"
    /\ LET threshold == IF use_gpu THEN GpuThresholdArg ELSE NoneVal
           categorized == PreprocessFiles(rec, ebooks_files, use_gpu, threshold,
                                          processed_files)
       IN  /\ gpu_available' = use_gpu
           /\ gpu_threshold' = threshold
           /\ rec' = categorized.heap
           /\ files_to_process' = categorized.gpu \o categorized.cpu
           /\ preprocess_log' = Append(preprocess_log,
                 LoggedCall("ebooks", categorized, use_gpu, threshold, hash_calls))
    /\ pc' = "build"
    /\ UNCHANGED << disk, ebooks_files, calibre_files, use_gpu, processed_files,
                    gpu_processor, ebooks_collection, calibre_collection,
                    stage1_unique, stage2_candidates, stage2_unique,
                    stage3_candidates, stage3_unique, unique_files,
                    deduplicated_files, duplicates_report, hash_calls, empty_results, found, second_run, output_csv, full_hash_log, batch >>

\* lines 140-141: ebooks_collection.add_file(file) for the next file
AddEbooksFile ==
    /\ pc = "build"
    /\ Len(ebooks_collection.files) < Len(files_to_process)
    /\ LET id == files_to_process[Len(ebooks_collection.files) + 1]
       IN  /\ ebooks_collection' = AddFileTo(ebooks_collection, id, rec[id])
           /\ rec' = [rec EXCEPT ![id] = CacheSizeHash(@)]
           /\ full_hash_log' = LogAddFile(full_hash_log, "ebooks", id, rec[id])
    /\ UNCHANGED << disk, ebooks_files, calibre_files, use_gpu, processed_files,
                    gpu_available, gpu_threshold, gpu_processor, files_to_process,
                    calibre_collection, stage1_unique, stage2_candidates,
                    stage2_unique, stage3_candidates, stage3_unique, unique_files,
                    deduplicated_files, duplicates_report, hash_calls, empty_results, found, preprocess_log, second_run, output_csv, pc,
                    batch >>

\* lines 143-145: calibre_collection.add_file(file) for the next file
AddCalibreFile ==
    /\ pc = "build"
    /\ Len(ebooks_collection.files) = Len(files_to_process)
    /\ Len(calibre_collection.files) < Len(calibre_files)
    /\ LET id == calibre_files[Len(calibre_collection.files) + 1]
       IN  /\ calibre_collection' = AddFileTo(calibre_collection, id, rec[id])
           /\ rec' = [rec EXCEPT ![id] = CacheSizeHash(@)]
           /\ full_hash_log' = LogAddFile(full_hash_log, "calibre", id, rec[id])
    /\ UNCHANGED << disk, ebooks_files, calibre_files, use_gpu, processed_files,
                    gpu_available, gpu_threshold, gpu_processor, files_to_process,
                    ebooks_collection, stage1_unique, stage2_candidates,
                    stage2_unique, stage3_candidates, stage3_unique, unique_files,
                    deduplicated_files, duplicates_report, hash_calls, empty_results, found, preprocess_log, second_run, output_csv, pc,
                    batch >>

\* lines 147-172: the GPU processor is constructed when the GPU is requested;
\* when it reports no accelerator the run falls back to the CPU only
ProbeGpu ==
    /\ pc = "build"
    /\ Len(ebooks_collection.files) = Len(files_to_process)
    /\ Len(calibre_collection.files) = Len(calibre_files)
    /\ \E accelerator \in BOOLEAN :
          /\ gpu_processor' = (gpu_available /\ accelerator)
          /\ gpu_available' = (gpu_available /\ accelerator)
    /\ pc' = "stage1"
    /\ UNCHANGED << disk, rec, ebooks_files, calibre_files, use_gpu,
                    processed_files, gpu_threshold, files_to_process,
                    ebooks_collection, calibre_collection, stage1_unique,
                    stage2_candidates, stage2_unique, stage3_candidates,
                    stage3_unique, unique_files, deduplicated_files,
                    duplicates_report, hash_calls, empty_results, found, preprocess_log, second_run, output_csv, full_hash_log, batch >>

\* lines 188-192: comparator.stage1.compare()
Stage1 ==
    /\ pc = "stage1"
    /\ LET r == Stage1Compare(rec, ebooks_collection, calibre_collection)
       IN  /\ stage1_unique' = r.unique
           /\ stage2_candidates' = r.candidates
           /\ rec' = r.heap
           /\ pc' = IF r.candidates # <<>> THEN "hash2" ELSE "dedup"
    /\ UNCHANGED << disk, ebooks_files, calibre_files, use_gpu, processed_files,
                    gpu_available, gpu_threshold, gpu_processor, files_to_process,
                    ebooks_collection, calibre_collection, stage2_unique,
                    stage3_candidates, stage3_unique, unique_files,
                    deduplicated_files, duplicates_report, hash_calls, empty_results, found, preprocess_log, second_run, output_csv, full_hash_log, batch >>

\* line 201: hashing_orchestrator.hash_stage2_files(stage2_candidates)
HashStage2 ==
    /\ pc = "hash2"
    /\ \E failed \in FailureSets(HashStage2FilesOf(rec, ebooks_collection,
                        calibre_collection, stage2_candidates, {}).cpu_1k) :
          LET r == HashStage2FilesOf(rec, ebooks_collection, calibre_collection,
                                     stage2_candidates, failed)
          IN  /\ rec' = r.heap
              /\ ebooks_collection' = r.ecoll
              /\ calibre_collection' = r.ccoll
              /\ hash_calls' = [hash_calls EXCEPT !.cpu_1k = Count(@, r.cpu_1k)]
              /\ empty_results' = empty_results \cup { <<id, "1k">> : id \in failed }
              /\ pc' = AfterHashing(failed, "stage2")
    /\ UNCHANGED << disk, ebooks_files, calibre_files, use_gpu, processed_files,
                    gpu_available, gpu_threshold, gpu_processor, files_to_process,
                    stage1_unique, stage2_candidates, stage2_unique,
                    stage3_candidates, stage3_unique, unique_files,
                    deduplicated_files, duplicates_report, found, preprocess_log, second_run, output_csv, full_hash_log, batch >>

\* lines 204-207: comparator.stage2.compare(stage2_candidates)
Stage2 ==
    /\ pc = "stage2"
    /\ LET r == Stage2Compare(rec, calibre_collection, stage2_candidates)
       IN  /\ stage2_unique' = r.unique
           /\ stage3_candidates' = r.candidates
           /\ rec' = r.heap
           /\ pc' = IF r.candidates # <<>> THEN "hash3" ELSE "dedup"
    /\ UNCHANGED << disk, ebooks_files, calibre_files, use_gpu, processed_files,
                    gpu_available, gpu_threshold, gpu_processor, files_to_process,
                    ebooks_collection, calibre_collection, stage1_unique,
                    stage2_candidates, stage3_unique, unique_files,
                    deduplicated_files, duplicates_report, hash_calls, empty_results, found, preprocess_log, second_run, output_csv, full_hash_log, batch >>

\* the files hash_stage3_files hands to a backend in the current state
Stage3Submitted ==
    LET r == HashStage3FilesOf(rec, ebooks_collection, calibre_collection,
                               stage3_candidates, gpu_processor, gpu_available,
                               gpu_threshold, processed_files, {})
    IN  r.gpu_full \o r.cpu_full

\* lines 215-220: hashing_orchestrator.hash_stage3_files(...)
HashStage3 ==
    /\ pc = "hash3"
    /\ \E failed \in FailureSets(Stage3Submitted) :
          LET r == HashStage3FilesOf(rec, ebooks_collection, calibre_collection,
                                     stage3_candidates, gpu_processor, gpu_available,
                                     gpu_threshold, processed_files, failed)
          IN  /\ rec' = r.heap
              /\ ebooks_collection' = r.ecoll
              /\ calibre_collection' = r.ccoll
              /\ hash_calls' = [hash_calls EXCEPT !.cpu_full = Count(@, r.cpu_full),
                                                  !.gpu_full = Count(@, r.gpu_full)]
              /\ empty_results' = empty_results \cup { <<id, "full">> : id \in failed }
              /\ pc' = AfterHashing(failed, "stage3")
              /\ full_hash_log' =
                    LogStored(LogStored(full_hash_log, "calibre", r.calibre_written),
                              "ebooks", r.ebooks_written)
              /\ preprocess_log' = Append(preprocess_log,
                    LoggedCall("calibre", r.calibre_categorized, gpu_available,
                               gpu_threshold, hash_calls))
    /\ UNCHANGED << disk, ebooks_files, calibre_files, use_gpu, processed_files,
                    gpu_available, gpu_threshold, gpu_processor, files_to_process,
                    stage1_unique, stage2_candidates, stage2_unique,
                    stage3_candidates, stage3_unique, unique_files,
                    deduplicated_files, duplicates_report, found, second_run, output_csv, batch >>

\* line 223: comparator.stage3.compare(stage3_candidates)
Stage3 ==
    /\ pc = "stage3"
    /\ LET r == Stage3Compare(rec, calibre_collection, stage3_candidates)
       IN  /\ stage3_unique' = r.unique
           /\ rec' = r.heap
    /\ pc' = "dedup"
    /\ UNCHANGED << disk, ebooks_files, calibre_files, use_gpu, processed_files,
                    gpu_available, gpu_threshold, gpu_processor, files_to_process,
                    ebooks_collection, calibre_collection, stage1_unique,
                    stage2_candidates, stage2_unique, stage3_candidates,
                    unique_files, deduplicated_files, duplicates_report,
                    hash_calls, empty_results, found, preprocess_log, second_run, output_csv, full_hash_log, batch >>

\* lines 225-317: merge the three unique lists and deduplicate the datalake
Dedup ==
    /\ pc = "dedup"
    /\ LET merged == stage1_unique \o stage2_unique \o stage3_unique
           st == Deduplicate(rec, merged)
       IN  /\ unique_files' = merged
           /\ deduplicated_files' = st.deduplicated_files
           /\ duplicates_report' = st.duplicates_report
           /\ output_csv' = WriteCsv(output_csv, st.deduplicated_files)
    /\ pc' = "done"
    /\ UNCHANGED << disk, rec, ebooks_files, calibre_files, use_gpu,
                    processed_files, gpu_available, gpu_threshold, gpu_processor,
                    files_to_process, ebooks_collection, calibre_collection,
                    stage1_unique, stage2_candidates, stage2_unique,
                    stage3_candidates, stage3_unique, hash_calls, empty_results, found, preprocess_log, second_run, full_hash_log, batch >>

\* comparator.find_unique_files() over the collections run_analyze has built
\* and hashed: a second pass of the three comparators
FindUniqueFiles ==
    /\ pc = "done"
    /\ LET r == FindUniqueFilesOf(rec, ebooks_collection, calibre_collection)
       IN  /\ found' = r.all_unique
           /\ rec' = r.heap
    /\ pc' = "found"
    /\ UNCHANGED << disk, ebooks_files, calibre_files, use_gpu, processed_files,
                    gpu_available, gpu_threshold, gpu_processor, files_to_process,
                    ebooks_collection, calibre_collection, stage1_unique,
                    stage2_candidates, stage2_unique, stage3_candidates,
                    stage3_unique, unique_files, deduplicated_files,
                    duplicates_report, hash_calls, empty_results,
                    preprocess_log, second_run, output_csv, full_hash_log, batch >>

\* the pipeline of lines 188-298 run once more over the same collections and
\* records, with the same files unreadable and the same processors
SecondRun ==
    /\ pc = "done"
    /\ LET failed_1k == { id \in Ids : <<id, "1k">> \in empty_results }
           failed_full == { id \in Ids : <<id, "full">> \in empty_results }
       IN  \E r \in { RunPipeline(rec, ebooks_collection, calibre_collection,
                                  gpu_processor, gpu_available, gpu_threshold,
                                  processed_files, failed_1k, failed_full) } :
           /\ second_run' = [ made |-> TRUE,
                              unique_files |-> r.unique_files,
                              deduplicated_files |-> r.deduplicated_files,
                              duplicates_report |-> r.duplicates_report ]
           /\ rec' = r.heap
           /\ ebooks_collection' = r.ecoll
           /\ calibre_collection' = r.ccoll
           /\ full_hash_log' =
                 LogStored(LogStored(full_hash_log, "calibre", r.calibre_written),
                           "ebooks", r.ebooks_written)
           /\ preprocess_log' =
                 IF r.hashed_full
                 THEN Append(preprocess_log,
                         LoggedCall("calibre", r.calibre_categorized, gpu_available,
                                    gpu_threshold, hash_calls))
                 ELSE preprocess_log
    /\ pc' = "done_twice"
    /\ UNCHANGED << disk, ebooks_files, calibre_files, use_gpu, processed_files,
                    gpu_available, gpu_threshold, gpu_processor, files_to_process,
                    stage1_unique, stage2_candidates, stage2_unique,
                    stage3_candidates, stage3_unique, unique_files,
                    deduplicated_files, duplicates_report, hash_calls,
                    empty_results, found, output_csv, batch >>

Next ==
    \/ Categorize
    \/ AddEbooksFile
    \/ AddCalibreFile
    \/ ProbeGpu
    \/ Stage1
    \/ HashStage2
    \/ Stage2
    \/ HashStage3
    \/ Stage3
    \/ Dedup
    \/ FindUniqueFiles

Spec == Init /\ [][Next]_vars

\* the run followed by a second pass of the pipeline over the same lists
NextTwice ==
    \/ Next
    \/ SecondRun

SpecTwice == Init /\ [][NextTwice]_vars

\* run_analyze --resume <csv>
SpecResume == InitResume /\ [][Next]_vars

\* run_analyze is one sequential program: it takes its next step as long
\* as it has one
SpecLive == Spec /\ WF_vars(Next)

\* ================================================================== claims
Stage1Done == pc \notin { "categorize", "build", "stage1" }
Stage2Done == pc \in { "hash3", "stage3", "dedup", "done", "found" }
Stage3Done == pc \in { "dedup", "done", "found" }
DedupDone == pc \in { "done", "found" }

NeverHashed(id) ==
    /\ rec[id].first_1k_hash = NoneVal
    /\ rec[id].full_hash = NoneVal
    /\ hash_calls.cpu_1k[id] = 0
    /\ hash_calls.cpu_full[id] = 0
    /\ hash_calls.gpu_full[id] = 0

NeverFullHashed(id) ==
    /\ rec[id].full_hash = NoneVal
    /\ hash_calls.cpu_full[id] = 0
    /\ hash_calls.gpu_full[id] = 0

\* C1: once Stage 1 has run, a datalake record is in the unique list iff its
\* size is not a key of the library's size index and in the candidate list
\* otherwise, and a record Stage 1 found unique has no prefix hash and no full
\* hash and was never submitted to a hash backend, up to the end of the run.
C1_Stage1SizeFilter ==
    Stage1Done =>
        \A id \in Range(ebooks_collection.files) :
            LET collides == rec[id].file_size \in DOMAIN calibre_collection.by_size
            IN  /\ (id \in Range(stage1_unique)) <=> ~collides
                /\ (id \in Range(stage2_candidates)) <=> collides
                /\ (id \in Range(stage1_unique)) => NeverHashed(id)

\* the run is over, one record was unique by size and another went through
\* both hashing steps
C1_Witness ==
    /\ pc = "done"
    /\ stage1_unique # <<>>
    /\ \E id \in Range(stage3_candidates) : rec[id].full_hash # NoneVal

\* C2: once Stage 2 has run, a Stage 1 candidate whose (size, prefix hash) is
\* no key of the library's (size, prefix hash) lookup is in Stage 2's unique
\* list, its full hash is unset and no full-hash task was submitted for it.
C2_Stage2PrefixFilter ==
    Stage2Done =>
        \A id \in Range(stage2_candidates) :
            (<<rec[id].file_size, rec[id].first_1k_hash>>
                    \notin DOMAIN calibre_collection.by_size_and_1k)
                => (id \in Range(stage2_unique) /\ NeverFullHashed(id))

\* a prefix-hashed record was unique after Stage 2 while another record of the
\* same run was fully hashed
C2_Witness ==
    /\ pc = "done"
    /\ \E id \in Range(stage2_unique) : rec[id].first_1k_hash # NoneVal
    /\ \E id \in Range(stage3_candidates) : rec[id].full_hash # NoneVal

\* some library record carries exactly the full hash of the datalake record
LibraryHasFullHashOf(id) ==
    /\ Truthy(rec[id].full_hash)
    /\ \E l \in Range(calibre_collection.files) : rec[l].full_hash = rec[id].full_hash

\* the two records are filed under the same deduplication key of the same kind
SameDedupKey(a, b) ==
    IF Truthy(a.full_hash) \/ Truthy(b.full_hash)
    THEN Truthy(a.full_hash) /\ Truthy(b.full_hash) /\ a.full_hash = b.full_hash
    ELSE IF Truthy(a.first_1k_hash) \/ Truthy(b.first_1k_hash)
    THEN /\ Truthy(a.first_1k_hash) /\ Truthy(b.first_1k_hash)
         /\ a.first_1k_hash = b.first_1k_hash /\ a.file_size = b.file_size
    ELSE a.file_size = b.file_size

\* the positions of the merged unique list before i that hold i's key
EarlierSameKey(i) ==
    { j \in 1..(i - 1) : SameDedupKey(rec[unique_files[j]], rec[unique_files[i]]) }

IndexIn(s, x) == CHOOSE i \in 1..Len(s) : s[i] = x

\* C3 as stated: a record passed to Stage 3 is absent from the final output
\* iff some library record has exactly its full hash.
C3_Original ==
    pc = "done" =>
        \A id \in Range(stage3_candidates) :
            (id \notin Range(deduplicated_files)) <=> LibraryHasFullHashOf(id)

\* C3 amended: a record passed to Stage 3 is absent from Stage 3's unique list
\* (hence from the merged list and from the final output) iff some library
\* record has exactly its full hash; otherwise it is in the merged list, and it
\* is in the final output iff no earlier record of the merged list has the
\* same deduplication key.
C3_Stage3FullHashFilter ==
    /\ Stage3Done =>
          \A id \in Range(stage3_candidates) :
              (id \notin Range(stage3_unique)) <=> LibraryHasFullHashOf(id)
    /\ DedupDone =>
          \A id \in Range(stage3_candidates) :
              /\ (id \in Range(unique_files)) <=> ~LibraryHasFullHashOf(id)
              /\ (id \in Range(deduplicated_files)) <=>
                    /\ id \in Range(unique_files)
                    /\ EarlierSameKey(IndexIn(unique_files, id)) = {}

\* one Stage 3 candidate is a duplicate of a library record, another one is
\* unique by full hash and kept
C3_Witness ==
    /\ pc = "done"
    /\ \E id \in Range(stage3_candidates) : LibraryHasFullHashOf(id)
    /\ \E id \in Range(stage3_unique) :
          Truthy(rec[id].full_hash) /\ id \in Range(deduplicated_files)

ReportedAs(id, method) ==
    \E k \in 1..Len(duplicates_report) :
        /\ duplicates_report[k].duplicate_path = id
        /\ duplicates_report[k].method = method

\* C4 as stated: of two datalake records with identical content and no match
\* in the library exactly one is in the final output, and the other is in the
\* duplicates report with method full_hash, whichever stage found them unique.
C4_Original ==
    pc = "done" =>
        \A x, y \in Range(ebooks_collection.files) :
            ( /\ x # y
              /\ disk[x] = disk[y]
              /\ \A l \in Range(calibre_collection.files) : disk[l] # disk[x] )
            => \/ /\ x \in Range(deduplicated_files)
                  /\ y \notin Range(deduplicated_files)
                  /\ ReportedAs(y, "full_hash")
               \/ /\ y \in Range(deduplicated_files)
                  /\ x \notin Range(deduplicated_files)
                  /\ ReportedAs(x, "full_hash")

\* the hashes a record ended up with name the method of its report entry
MethodByHashes(r) ==
    IF Truthy(r.full_hash) THEN "full_hash"
    ELSE IF Truthy(r.first_1k_hash) THEN "size+1k_hash"
    ELSE "size_only"

\* C4 amended: of two records of the merged unique list with identical content
\* for which the same hashes were obtained, the later one is never in the
\* final output: it is in the duplicates report with the method of the most
\* specific hash the two have - full_hash only for records fully hashed for
\* Stage 3, size+1k_hash for records with only the prefix hash, size_only for
\* records without a hash (all records Stage 1 found unique); the earlier one
\* is in the final output unless a record before it has the same key.
C4_WithinDatalakeDedup ==
    DedupDone =>
        \A i, j \in 1..Len(unique_files) :
            LET x == unique_files[i]
                y == unique_files[j]
            IN  ( /\ i < j
                  /\ disk[x] = disk[y]
                  /\ MethodByHashes(rec[x]) = MethodByHashes(rec[y]) )
                => /\ y \notin Range(deduplicated_files)
                   /\ ReportedAs(y, MethodByHashes(rec[y]))
                   /\ ~(\E m \in { "full_hash", "size+1k_hash", "size_only" } :
                            m # MethodByHashes(rec[y]) /\ ReportedAs(y, m))
                   /\ (y \in Range(stage1_unique)) => ReportedAs(y, "size_only")
                   /\ ReportedAs(y, "full_hash") => y \in Range(stage3_unique)
                   /\ ReportedAs(y, "size+1k_hash") =>
                          y \in Range(stage2_unique) \cup Range(stage3_unique)
                   /\ (x \in Range(deduplicated_files)) <=> (EarlierSameKey(i) = {})

\* two records with the same bytes were both unique by full hash and the
\* second one is reported as a full_hash duplicate of the first
C4_Witness ==
    /\ pc = "done"
    /\ \E k \in 1..Len(duplicates_report) :
          /\ duplicates_report[k].method = "full_hash"
          /\ disk[duplicates_report[k].duplicate_path]
                = disk[duplicates_report[k].original_path]
          /\ duplicates_report[k].original_path \in Range(deduplicated_files)

\* C5: when a backend returned b"" for a datalake record at the prefix stage
\* (resp. the full-hash stage), the record's prefix hash (resp. full hash)
\* stays unset and, once Stage 2 (resp. Stage 3) has run, the record is in
\* that stage's unique list; the run goes on to the comparator.
C5_EmptyHashIsUnique ==
    \A id \in EbookIds :
        /\ (<<id, "1k">> \in empty_results) =>
              /\ rec[id].first_1k_hash = NoneVal
              /\ pc # "hash2"
              /\ Stage2Done => id \in Range(stage2_unique)
        /\ (<<id, "full">> \in empty_results) =>
              /\ rec[id].full_hash = NoneVal
              /\ pc # "hash3"
              /\ Stage3Done => id \in Range(stage3_unique)

\* one datalake record failed at the prefix stage and another one at the
\* full-hash stage of the same run
C5_Witness ==
    /\ pc = "done"
    /\ \E id \in EbookIds : <<id, "1k">> \in empty_results
    /\ \E id \in EbookIds : <<id, "full">> \in empty_results

\* C6 as stated: find_unique_files returns every datalake record that collides
\* by size but has no prefix hash, and every one that collides by (size, prefix
\* hash) but has no full hash.
C6_MissingHashIsUnique ==
    pc = "found" =>
        \A id \in Range(ebooks_collection.files) :
            ( \/ /\ rec[id].file_size \in DOMAIN calibre_collection.by_size
                 /\ rec[id].first_1k_hash = NoneVal
              \/ /\ rec[id].first_1k_hash # NoneVal
                 /\ <<rec[id].file_size, rec[id].first_1k_hash>>
                        \in DOMAIN calibre_collection.by_size_and_1k
                 /\ rec[id].full_hash = NoneVal )
            => id \in Range(found)

\* C7: the deduplication keys each record of the merged list by its full hash
\* if set, else by (size, prefix hash) if the prefix hash is set, else by size;
\* a record is kept iff no earlier record has the same key of the same kind,
\* and a dropped record is reported once, with the method of its key and with
\* original_path the first record of the list under that key.
C7_DedupFirstSeenWins ==
    DedupDone =>
        /\ \A i \in 1..Len(unique_files) :
              LET id == unique_files[i]
                  earlier == EarlierSameKey(i)
              IN  /\ (id \in Range(deduplicated_files)) <=> (earlier = {})
                  /\ (earlier # {}) =>
                        \E k \in 1..Len(duplicates_report) :
                            /\ duplicates_report[k].duplicate_path = id
                            /\ duplicates_report[k].method = MethodByHashes(rec[id])
                            /\ \E j \in earlier :
                                  /\ \A jj \in earlier : j <= jj
                                  /\ duplicates_report[k].original_path = unique_files[j]
        /\ Len(deduplicated_files) + Len(duplicates_report) = Len(unique_files)

\* a record with only a prefix hash was dropped as the duplicate of an earlier
\* record with the same size and prefix hash
C7_Witness ==
    /\ pc = "done"
    /\ \E k \in 1..Len(duplicates_report) :
          /\ duplicates_report[k].method = "size+1k_hash"
          /\ duplicates_report[k].original_path \in Range(deduplicated_files)

\* the lookups of one collection hold every hash its records carry
LookupsFresh(coll) ==
    \A id \in Range(coll.files) :
        /\ (rec[id].first_1k_hash # NoneVal) =>
              /\ <<rec[id].file_size, rec[id].first_1k_hash>> \in DOMAIN coll.by_size_and_1k
              /\ id \in Range(coll.by_size_and_1k[<<rec[id].file_size, rec[id].first_1k_hash>>])
        /\ (rec[id].full_hash # NoneVal) => rec[id].full_hash \in DOMAIN coll.by_full_hash

\* C8: in every state, every record of a collection whose prefix hash is set
\* is a member of by_size_and_1k[(size, prefix hash)] of that collection, and
\* every record whose full hash is set has that hash as a key of by_full_hash.
C8_LookupsNeverStale ==
    LookupsFresh(ebooks_collection) /\ LookupsFresh(calibre_collection)

\* both sides hold a record that was hashed at both stages
C8_Witness ==
    /\ \E id \in Range(ebooks_collection.files) :
          rec[id].first_1k_hash # NoneVal /\ rec[id].full_hash # NoneVal
    /\ \E id \in Range(calibre_collection.files) :
          rec[id].first_1k_hash # NoneVal /\ rec[id].full_hash # NoneVal

StatusRank(status) ==
    CASE status = "pending" -> 0
      [] status = "size_checked" -> 1
      [] status = "1k_hashed" -> 2
      [] status = "full_hashed" -> 3

\* C9 as stated: no step, a second pass of the comparators over the same
\* collections included, moves a record's processing_status to an earlier
\* value of pending < size_checked < 1k_hashed < full_hashed.
C9_StatusNeverRegresses ==
    [][ \A id \in Ids :
          StatusRank(rec'[id].processing_status) >= StatusRank(rec[id].processing_status)
      ]_vars

\* the discovered records of both sides
Discovered == Range(ebooks_files) \cup Range(calibre_files)

\* C16 as stated: by the end of run_analyze every record of both sides was
\* given its processing_method by exactly one preprocess_files call, no such
\* call came after a hash had been computed, and all calls were given the
\* same availability flag and the same threshold.
C16_MethodAssignedOnceBeforeHashing ==
    pc = "done" =>
        /\ \A id \in Discovered :
              Cardinality({ k \in 1..Len(preprocess_log) :
                              id \in preprocess_log[k].assigned }) = 1
        /\ \A k \in 1..Len(preprocess_log) : ~preprocess_log[k].after_hashing
        /\ \A k, l \in 1..Len(preprocess_log) :
              /\ preprocess_log[k].gpu_available = preprocess_log[l].gpu_available
              /\ preprocess_log[k].gpu_threshold = preprocess_log[l].gpu_threshold

C18_RunCompletes == <>(pc = "done")

\* the run has ended after a datalake file and a library file failed to hash,
\* with the accelerator in use
C18_Witness ==
    /\ pc = "done"
    /\ gpu_processor
    /\ \E e \in Range(ebooks_files), c \in Range(calibre_files) :
          /\ \E stage \in { "1k", "full" } : <<e, stage>> \in empty_results
          /\ \E stage \in { "1k", "full" } : <<c, stage>> \in empty_results

\* C19: after the deduplication every record of the merged list is either in
\* the final output or the duplicate_path of exactly one report entry, never
\* both; the two sizes add up to the size of the merged list; and every
\* entry's original_path is in the final output, its method one of the three.
C19_DedupPartition ==
    pc = "done" =>
        /\ \A id \in Range(unique_files) :
              LET entries == { k \in 1..Len(duplicates_report) :
                                 duplicates_report[k].duplicate_path = id }
              IN  IF id \in Range(deduplicated_files)
                  THEN entries = {}
                  ELSE Cardinality(entries) = 1
        /\ Len(deduplicated_files) + Len(duplicates_report) = Len(unique_files)
        /\ Range(deduplicated_files) \subseteq Range(unique_files)
        /\ \A k \in 1..Len(duplicates_report) :
              /\ duplicates_report[k].duplicate_path \in Range(unique_files)
              /\ duplicates_report[k].original_path \in Range(deduplicated_files)
              /\ duplicates_report[k].method \in
                    { "full_hash", "size+1k_hash", "size_only" }

\* the deduplication kept a record and reported another one against it
C19_Witness ==
    /\ pc = "done"
    /\ Len(duplicates_report) >= 1
    /\ Len(deduplicated_files) >= 1
    /\ Len(unique_files) >= 2

\* C20 as stated: a record whose absolute path is in the processed set is in
\* neither collection, is never hashed and is never visited by a comparator.
C20_ResumeFilter ==
    \A id \in Ids :
        Str(id) \in processed_files =>
            /\ id \notin Range(ebooks_collection.files)
            /\ id \notin Range(calibre_collection.files)
            /\ NeverHashed(id)
            /\ rec[id].processing_status = "pending"

\* the comparators of run_analyze that have run: pc is past them
PastStage1 == pc \in { "hash2", "stage2", "hash3", "stage3", "dedup", "done" }
PastStage2 == pc \in { "hash3", "stage3", "dedup", "done" }
PastStage3 == pc \in { "dedup", "done" }

\* the status of the last stage that visited the record
LastStageStatus(id) ==
    IF PastStage3 /\ id \in Range(stage3_candidates) THEN "full_hashed"
    ELSE IF PastStage2 /\ id \in Range(stage2_candidates) THEN "1k_hashed"
    ELSE "size_checked"

\* C21: once Stage 1 has run every datalake record of the collection is past
\* "pending"; every record passed to Stage 2 is 1k_hashed once Stage 2 has
\* run and every record passed to Stage 3 is full_hashed once Stage 3 has run,
\* whether the stage found it unique, a candidate or a duplicate; at every
\* point of the run the status is that of the last stage that visited it.
C21_StatusIsLastStage ==
    PastStage1 =>
        \A id \in Range(ebooks_collection.files) :
            /\ rec[id].processing_status = LastStageStatus(id)
            /\ (pc = "hash2") => rec[id].processing_status = "size_checked"
            /\ (pc = "hash3" /\ id \in Range(stage2_candidates)) =>
                  rec[id].processing_status = "1k_hashed"
            /\ (pc = "dedup" /\ id \in Range(stage3_candidates)) =>
                  rec[id].processing_status = "full_hashed"

\* the run has ended with a record Stage 3 found to be a duplicate and a
\* record an earlier stage found unique
C21_Witness ==
    /\ pc = "done"
    /\ \E a \in Range(stage3_candidates) :
          /\ a \notin Range(stage3_unique)
          /\ rec[a].processing_status = "full_hashed"
    /\ \E b \in Range(stage1_unique) \cup Range(stage2_unique) :
          rec[b].processing_status \in { "size_checked", "1k_hashed" }

\* ------------------------------------ hashing/cpu.py: CPUHashProcessor.hash_batch
\* the future's result() raised instead of returning bytes
RaisedVal == -2

\* results.append(value): the results in the order of completion
StoreResultInCompletionOrder(results, index, value) ==
    LET free == { i \in 1..Len(results) : results[i] = NoneVal }
        slot == CHOOSE i \in free : \A j \in free : i <= j
    IN  [results EXCEPT ![slot] = value]

\* results[index] = value
StoreResult(results, index, value) == [results EXCEPT ![index] = value]

\* result = future.result() without the try/except around it
CollectedUncaught(outcome) == outcome

\* what the collecting loop stores for a finished future
Collected(outcome) == IF outcome = RaisedVal THEN EmptyBytes ELSE outcome

\* every file of a batch has its own bytes
BatchContent(id) == [size |-> id, head |-> id, tail |-> id]

InitBatch ==
    /\ disk = [ id \in Ids |-> BatchContent(id) ]
    /\ rec = [ id \in Ids |-> NewEbookFile(disk[id]) ]
    /\ ebooks_files = <<>>
    /\ calibre_files = <<>>
    /\ use_gpu = FALSE
    /\ processed_files = {}
    /\ gpu_available = FALSE
    /\ gpu_threshold = NoneVal
    /\ gpu_processor = FALSE
    /\ files_to_process = <<>>
    /\ ebooks_collection = EmptyCollection
    /\ calibre_collection = EmptyCollection
    /\ stage1_unique = <<>>
    /\ stage2_candidates = <<>>
    /\ stage2_unique = <<>>
    /\ stage3_candidates = <<>>
    /\ stage3_unique = <<>>
    /\ unique_files = <<>>
    /\ deduplicated_files = <<>>
    /\ duplicates_report = <<>>
    /\ hash_calls = [ cpu_1k |-> NoCalls, cpu_full |-> NoCalls, gpu_full |-> NoCalls ]
    /\ empty_results = {}
    /\ found = <<>>
    /\ preprocess_log = <<>>
    /\ second_run = NoRun
    /\ output_csv = NoCsv
    /\ full_hash_log = NoWrites
    /\ pc = "batch"
    /\ batch = IdleBatch

\* lines 73-87: the worker function is chosen, results = [None] * len(files),
\* and one task per file is submitted to the pool
BatchCall ==
    /\ batch.state = "idle"
    /\ \E files \in SeqsUpTo(EbookIds, MaxBatch), stage \in { "1k", "full" } :
          batch' = [ files |-> files,
                     stage |-> stage,
                     results |-> [ i \in 1..Len(files) |-> NoneVal ],
                     future_to_index |-> [ k \in 1..Len(files) |-> k ],
                     task |-> [ k \in 1..Len(files) |-> "pending" ],
                     outcome |-> [ k \in 1..Len(files) |-> NoneVal ],
                     first |-> 0,
                     state |-> "running" ]
    /\ UNCHANGED pipelineVars

\* a worker process finishes the task of future k: the digest, b"" when the
\* file cannot be read, or an exception that result() will raise
WorkerFinish ==
    /\ batch.state = "running"
    /\ \E k \in 1..Len(batch.task) :
          /\ batch.task[k] = "pending"
          /\ \E outcome \in { WorkerFunc(batch.stage, batch.files[k], {}),
                              WorkerFunc(batch.stage, batch.files[k], { batch.files[k] }),
                              RaisedVal } :
                batch' = [batch EXCEPT !.task[k] = "finished", !.outcome[k] = outcome]
    /\ UNCHANGED pipelineVars

\* lines 90-95: as_completed yields a finished future; its result is stored at
\* the index the future was submitted for
Collect ==
    /\ batch.state = "running"
    /\ \E k \in 1..Len(batch.task) :
          /\ batch.task[k] = "finished"
          /\ batch' = [batch EXCEPT
                !.task[k] = "collected",
                !.first = IF @ = 0 THEN k ELSE @,
                !.results = StoreResult(@, batch.future_to_index[k],
                                        Collected(batch.outcome[k]))]
    /\ UNCHANGED pipelineVars

\* a loop that ends with the first future that completes
FirstCollected(task) == task = <<>> \/ \E k \in 1..Len(task) : task[k] = "collected"

\* for future in as_completed(future_to_index): the loop ends when every
\* submitted future has been yielded
AllCollected(task) == \A k \in 1..Len(task) : task[k] = "collected"

\* line 97: return results, once every future has been collected
BatchReturn ==
    /\ batch.state = "running"
    /\ AllCollected(batch.task)
    /\ batch' = [batch EXCEPT !.state = "returned"]
    /\ UNCHANGED pipelineVars

NextBatch ==
    \/ BatchCall
    \/ WorkerFinish
    \/ Collect
    \/ BatchReturn

SpecBatch == InitBatch /\ [][NextBatch]_vars

\* C10: the list hash_batch returns has one entry per input file; entry i is
\* what the worker task of input file i produced (its digest, or b"" when the
\* task failed), whatever the order in which the tasks completed; no entry is
\* left unset and none holds another file's result.
C10_BatchOrderPreserved ==
    batch.state = "returned" =>
        /\ Len(batch.results) = Len(batch.files)
        /\ \A i \in 1..Len(batch.files) :
              /\ batch.results[i] # NoneVal
              /\ batch.results[i] = Collected(batch.outcome[i])
              /\ batch.results[i] \in
                    { EmptyBytes,
                      IF batch.stage = "1k"
                      THEN Sha256(First1K(disk[batch.files[i]]))
                      ELSE Sha256(AllBytes(disk[batch.files[i]])) }

\* a batch of two different files returned after the task of the last file
\* completed first, with a digest for every file
C10_Witness ==
    /\ batch.state = "returned"
    /\ Len(batch.files) >= 2
    /\ batch.first = Len(batch.files)
    /\ batch.files[1] # batch.files[Len(batch.files)]
    /\ \A i \in 1..Len(batch.files) : batch.results[i] > EmptyBytes

\* ------------------------------------------- the collections driven by a caller
\* the number of records a caller adds to the two collections, and the number
\* of scanned records added to them
MaxAdds == 2
MaxScanned == 3

\* an EbookFile the caller constructs, with the hashes it already carries
CallerEbookFile(c, has_1k, has_full) ==
    [NewEbookFile(c) EXCEPT
        !.first_1k_hash = IF has_1k THEN Sha256(First1K(c)) ELSE NoneVal,
        !.full_hash = IF has_full THEN Sha256(AllBytes(c)) ELSE NoneVal]

\* two empty collections and an orchestrator, with the arguments its
\* hash_stage3_files will be given
InitCollWith(available, threshold, has_gpu, processed) ==
    /\ disk = [ id \in Ids |-> NoContent ]
    /\ rec = [ id \in Ids |-> NewEbookFile(NoContent) ]
    /\ ebooks_files = <<>>
    /\ calibre_files = <<>>
    /\ use_gpu = FALSE
    /\ processed_files = processed
    /\ gpu_available = available
    /\ gpu_threshold = threshold
    /\ gpu_processor = has_gpu
    /\ files_to_process = <<>>
    /\ ebooks_collection = EmptyCollection
    /\ calibre_collection = EmptyCollection
    /\ stage1_unique = <<>>
    /\ stage2_candidates = <<>>
    /\ stage2_unique = <<>>
    /\ stage3_candidates = <<>>
    /\ stage3_unique = <<>>
    /\ unique_files = <<>>
    /\ deduplicated_files = <<>>
    /\ duplicates_report = <<>>
    /\ hash_calls = [ cpu_1k |-> NoCalls, cpu_full |-> NoCalls, gpu_full |-> NoCalls ]
    /\ empty_results = {}
    /\ found = <<>>
    /\ preprocess_log = <<>>
    /\ second_run = NoRun
    /\ output_csv = NoCsv
    /\ full_hash_log = NoWrites
    /\ pc = "api"
    /\ batch = IdleBatch

\* the orchestrator as run_analyze drives it without --use-gpu and --resume
InitColl == InitCollWith(FALSE, NoneVal, FALSE, {})

\* the orchestrator as any caller can drive it: every combination of
\* gpu_available, gpu_threshold, a GPU processor and processed_files
InitApi ==
    \E available \in BOOLEAN, threshold \in { NoneVal, 1, 2 }, has_gpu \in BOOLEAN,
       processed \in SUBSET { Str(id) : id \in 1..MaxAdds } :
        InitCollWith(available, threshold, has_gpu, processed)

\* FileCollection.add_file(file) on either collection, for a new record that
\* carries hashes or not as carried allows, up to limit records
CollAddFileWith(carried, limit) ==
    /\ pc \in { "api", "api_1k", "api_full", "api_added" }
    /\ pc' = IF pc = "api_full" THEN "api_added" ELSE pc
    /\ LET id == Len(ebooks_collection.files) + Len(calibre_collection.files) + 1
       IN  /\ id <= limit
           /\ id \in Ids
           /\ \E c \in Contents, has_1k \in carried, has_full \in carried :
                 LET r == CallerEbookFile(c, has_1k, has_full)
                 IN  /\ disk' = [disk EXCEPT ![id] = c]
                     /\ rec' = [rec EXCEPT ![id] = CacheSizeHash(r)]
                     /\ \/ /\ ebooks_collection' = AddFileTo(ebooks_collection, id, r)
                           /\ full_hash_log' = LogAddFile(full_hash_log, "ebooks", id, r)
                           /\ UNCHANGED calibre_collection
                        \/ /\ calibre_collection' = AddFileTo(calibre_collection, id, r)
                           /\ full_hash_log' = LogAddFile(full_hash_log, "calibre", id, r)
                           /\ UNCHANGED ebooks_collection
    /\ UNCHANGED << ebooks_files, calibre_files, use_gpu, processed_files,
                    gpu_available, gpu_threshold, gpu_processor, files_to_process,
                    stage1_unique, stage2_candidates, stage2_unique,
                    stage3_candidates, stage3_unique, unique_files,
                    deduplicated_files, duplicates_report, hash_calls,
                    empty_results, found, preprocess_log, second_run, output_csv, batch >>

\* add_file for a record a caller built, with or without hashes
CollAddFile == CollAddFileWith(BOOLEAN, MaxAdds)

\* add_file for a record as scan_directory builds it: no hash is set
ScanAddFile == CollAddFileWith({ FALSE }, MaxScanned)

\* comparator.stage1.compare() and hash_stage2_files(stage2_candidates), as
\* run_analyze pairs them (lines 188-201)
CollHashStage2 ==
    /\ pc = "api"
    /\ LET s1 == Stage1Compare(rec, ebooks_collection, calibre_collection)
       IN  /\ s1.candidates # <<>>
           /\ \E failed \in FailureSets(HashStage2FilesOf(s1.heap, ebooks_collection,
                               calibre_collection, s1.candidates, {}).cpu_1k) :
                 LET r == HashStage2FilesOf(s1.heap, ebooks_collection,
                                            calibre_collection, s1.candidates, failed)
                 IN  /\ rec' = r.heap
                     /\ ebooks_collection' = r.ecoll
                     /\ calibre_collection' = r.ccoll
                     /\ stage2_candidates' = s1.candidates
                     /\ hash_calls' = [hash_calls EXCEPT !.cpu_1k = Count(@, r.cpu_1k)]
                     /\ empty_results' =
                           empty_results \cup { <<id, "1k">> : id \in failed }
    /\ pc' = "api_1k"
    /\ UNCHANGED << disk, ebooks_files, calibre_files, use_gpu, processed_files,
                    gpu_available, gpu_threshold, gpu_processor, files_to_process,
                    stage1_unique, stage2_unique, stage3_candidates,
                    stage3_unique, unique_files, deduplicated_files,
                    duplicates_report, found, preprocess_log, second_run, output_csv, full_hash_log, batch >>

\* comparator.stage2.compare(stage2_candidates) and
\* hash_stage3_files(stage3_candidates, ...), lines 204-220
CollHashStage3 ==
    /\ pc = "api_1k"
    /\ LET s2 == Stage2Compare(rec, calibre_collection, stage2_candidates)
           submitted == HashStage3FilesOf(s2.heap, ebooks_collection,
                            calibre_collection, s2.candidates, gpu_processor,
                            gpu_available, gpu_threshold, processed_files, {})
       IN  /\ s2.candidates # <<>>
           /\ \E failed \in FailureSets(submitted.gpu_full \o submitted.cpu_full) :
                 LET r == HashStage3FilesOf(s2.heap, ebooks_collection,
                               calibre_collection, s2.candidates, gpu_processor,
                               gpu_available, gpu_threshold, processed_files, failed)
                 IN  /\ rec' = r.heap
                     /\ ebooks_collection' = r.ecoll
                     /\ calibre_collection' = r.ccoll
                     /\ stage3_candidates' = s2.candidates
                     /\ hash_calls' = [hash_calls EXCEPT
                                         !.cpu_full = Count(@, r.cpu_full),
                                         !.gpu_full = Count(@, r.gpu_full)]
                     /\ empty_results' =
                           empty_results \cup { <<id, "full">> : id \in failed }
                     /\ full_hash_log' =
                           LogStored(LogStored(full_hash_log, "calibre", r.calibre_written),
                                     "ebooks", r.ebooks_written)
                     /\ preprocess_log' = Append(preprocess_log,
                           LoggedCall("calibre", r.calibre_categorized, gpu_available,
                                      gpu_threshold, hash_calls))
    /\ pc' = "api_full"
    /\ UNCHANGED << disk, ebooks_files, calibre_files, use_gpu, processed_files,
                    gpu_available, gpu_threshold, gpu_processor, files_to_process,
                    stage1_unique, stage2_candidates, stage2_unique,
                    stage3_unique, unique_files, deduplicated_files,
                    duplicates_report, found, second_run, output_csv, batch >>

NextColl ==
    \/ CollAddFile
    \/ CollHashStage2
    \/ CollHashStage3

SpecColl == InitColl /\ [][NextColl]_vars

SpecApi == InitApi /\ [][NextColl]_vars

\* the orchestrator over two scanned collections
NextScan ==
    \/ ScanAddFile
    \/ CollHashStage2
    \/ CollHashStage3

SpecScan == InitColl /\ [][NextScan]_vars

\* the positions of the writes of hash h in one side's log
WritesOf(log, h) == { k \in 1..Len(log) : log[k][1] = h }

\* the largest element of a non-empty set of numbers
Latest(S) == CHOOSE k \in S : \A l \in S : l <= k

\* the keys a lookup can be asked for: every digest of a modelled content
FullHashes == { Sha256(AllBytes(c)) : c \in Contents }

LastWriteWins(coll, log) ==
    \A h \in FullHashes \cup DOMAIN coll.by_full_hash :
        /\ (GetFileByFullHash(coll, h) # NoneVal) <=> (WritesOf(log, h) # {})
        /\ (WritesOf(log, h) # {}) =>
              GetFileByFullHash(coll, h) = log[Latest(WritesOf(log, h))][2]

SharesKeyWithCandidate(c) ==
    /\ rec[c].first_1k_hash # NoneVal
    /\ \E e \in Range(stage3_candidates) :
          /\ rec[e].file_size = rec[c].file_size
          /\ rec[e].first_1k_hash = rec[c].first_1k_hash

\* the record was handed to a backend for full hashing
SubmittedFull(id) == hash_calls.cpu_full[id] + hash_calls.gpu_full[id] > 0

\* C24 as stated: when hash_stage3_files has returned, whatever gpu_available,
\* gpu_threshold, the GPU processor and processed_files are, a library record
\* was submitted for full hashing iff it shares its (size, prefix hash) with a
\* record passed in, and such a record, when readable, has full_hash set and
\* is found by the library's by_full_hash lookup.
C24_LibraryCandidatesFullHashed ==
    pc = "api_full" =>
        \A c \in Range(calibre_collection.files) :
            /\ SubmittedFull(c) <=> SharesKeyWithCandidate(c)
            /\ (SharesKeyWithCandidate(c) /\ <<c, "full">> \notin empty_results) =>
                  /\ rec[c].full_hash = Sha256(AllBytes(disk[c]))
                  /\ GetFileByFullHash(calibre_collection, rec[c].full_hash) # NoneVal

\* the number of positions of a list that hold id
Occurrences(files, id) == Cardinality({ i \in 1..Len(files) : files[i] = id })

\* the collection a record was added to
OwnCollection(id, ecoll, ccoll) == IF id \in Range(ecoll.files) THEN ecoll ELSE ccoll

\* the step from before stage1.compare() to after hash_stage2_files
Stage2HashingStep == pc = "api" /\ pc' = "api_1k"

\* the record is a Stage 1 candidate, or a library record with the size of one
InStage2Scope(id) ==
    \/ id \in Range(stage2_candidates')
    \/ /\ id \in Range(calibre_collection.files)
       /\ \E e \in Range(stage2_candidates') : rec[e].file_size = rec[id].file_size

\* every position of every (size, prefix hash) list of the collection that
\* holds id is the same before and after
SameLookupEntries(id, before, after) ==
    /\ \A key \in DOMAIN before.by_size_and_1k \cup DOMAIN after.by_size_and_1k :
          Occurrences(DictGetList(after.by_size_and_1k, key), id)
              = Occurrences(DictGetList(before.by_size_and_1k, key), id)
    /\ \A h \in DOMAIN before.by_full_hash \cup DOMAIN after.by_full_hash :
          (GetFileByFullHash(after, h) = id) <=> (GetFileByFullHash(before, h) = id)

\* C25: hash_stage2_files prefix-hashes, on the CPU, exactly the Stage 1
\* candidates and the library records that have the size of a Stage 1
\* candidate; each of them whose hash is not empty has first_1k_hash set to the
\* digest of its first 1024 bytes and is in its own collection's list for
\* (size, prefix hash); no hash field and no lookup entry of any other record
\* changes.
C25_Stage2HashesExactlySizeMatches ==
    [][Stage2HashingStep =>
        /\ hash_calls'.gpu_full = hash_calls.gpu_full
        /\ hash_calls'.cpu_full = hash_calls.cpu_full
        /\ \A id \in Range(ebooks_collection.files) \cup Range(calibre_collection.files) :
              /\ (hash_calls'.cpu_1k[id] > hash_calls.cpu_1k[id]) <=> InStage2Scope(id)
              /\ (InStage2Scope(id) /\ <<id, "1k">> \notin empty_results') =>
                    /\ rec'[id].first_1k_hash = Sha256(First1K(disk[id]))
                    /\ id \in Range(GetFilesBySizeAnd1k(
                                OwnCollection(id, ebooks_collection', calibre_collection'),
                                rec[id].file_size, rec'[id].first_1k_hash))
              /\ ~InStage2Scope(id) =>
                    /\ rec'[id].first_1k_hash = rec[id].first_1k_hash
                    /\ rec'[id].full_hash = rec[id].full_hash
                    /\ SameLookupEntries(id, ebooks_collection, ebooks_collection')
                    /\ SameLookupEntries(id, calibre_collection, calibre_collection')
    ]_vars

\* hash_stage2_files has returned: a candidate and a library record of its size
\* carry their prefix hash, and a library record of another size was left alone
C25_Witness ==
    /\ pc = "api_1k"
    /\ \E e \in Range(stage2_candidates), c, d \in Range(calibre_collection.files) :
          /\ rec[c].file_size = rec[e].file_size
          /\ rec[e].first_1k_hash = Sha256(First1K(disk[e]))
          /\ rec[c].first_1k_hash = Sha256(First1K(disk[c]))
          /\ e \in Range(GetFilesBySizeAnd1k(ebooks_collection, rec[e].file_size,
                                             rec[e].first_1k_hash))
          /\ rec[d].file_size # rec[e].file_size
          /\ hash_calls.cpu_1k[d] = 0
          /\ rec[d].first_1k_hash = NoneVal

\* ------------------------- run_analyze with the worker tasks of every hash_batch
\* hash_batch(files, stage) of the CPU processor has submitted one task per file
RunningBatch(files, stage) ==
    [ files |-> files,
      stage |-> stage,
      results |-> [ i \in 1..Len(files) |-> NoneVal ],
      future_to_index |-> [ k \in 1..Len(files) |-> k ],
      task |-> [ k \in 1..Len(files) |-> "pending" ],
      outcome |-> [ k \in 1..Len(files) |-> NoneVal ],
      first |-> 0,
      state |-> "running" ]

\* the files of the returned batch whose result is b""
BatchFailed == { batch.files[i] : i \in { j \in 1..Len(batch.files) : batch.results[j] = EmptyBytes } }

\* orchestrator.py lines 57-66: the library records of a candidate's size are
\* handed to the CPU processor
OrderHashStage2Calibre ==
    /\ pc = "hash2"
    /\ batch.state = "idle"
    /\ LET r == HashStage2FilesOf(rec, ebooks_collection, calibre_collection,
                                  stage2_candidates, {})
       IN  batch' = RunningBatch(r.calibre_candidates, "1k")
    /\ pc' = "hash2_calibre"
    /\ UNCHANGED << disk, rec, ebooks_files, calibre_files, use_gpu, processed_files,
                    gpu_available, gpu_threshold, gpu_processor, files_to_process,
                    ebooks_collection, calibre_collection, stage1_unique,
                    stage2_candidates, stage2_unique, stage3_candidates,
                    stage3_unique, unique_files, deduplicated_files,
                    duplicates_report, hash_calls, empty_results, found,
                    preprocess_log, second_run, output_csv, full_hash_log >>

\* lines 67-77: the library results are stored, then the candidates are handed
\* to the CPU processor
OrderHashStage2Ebooks ==
    /\ pc = "hash2_calibre"
    /\ batch.state = "returned"
    /\ LET c == Store1kHashes(rec, calibre_collection, batch.files, batch.results, 1)
       IN  /\ rec' = c.heap
           /\ calibre_collection' = c.coll
    /\ hash_calls' = [hash_calls EXCEPT !.cpu_1k = Count(@, batch.files)]
    /\ empty_results' = empty_results \cup { <<id, "1k">> : id \in BatchFailed }
    /\ batch' = RunningBatch(stage2_candidates, "1k")
    /\ pc' = "hash2_ebooks"
    /\ UNCHANGED << disk, ebooks_files, calibre_files, use_gpu, processed_files,
                    gpu_available, gpu_threshold, gpu_processor, files_to_process,
                    ebooks_collection, stage1_unique, stage2_candidates,
                    stage2_unique, stage3_candidates, stage3_unique, unique_files,
                    deduplicated_files, duplicates_report, found, preprocess_log,
                    second_run, output_csv, full_hash_log >>

\* lines 78-87: the candidates' results are stored and hash_stage2_files returns
OrderHashStage2Return ==
    /\ pc = "hash2_ebooks"
    /\ batch.state = "returned"
    /\ LET e == Store1kHashes(rec, ebooks_collection, batch.files, batch.results, 1)
       IN  /\ rec' = e.heap
           /\ ebooks_collection' = e.coll
    /\ hash_calls' = [hash_calls EXCEPT !.cpu_1k = Count(@, batch.files)]
    /\ empty_results' = empty_results \cup { <<id, "1k">> : id \in BatchFailed }
    /\ batch' = IdleBatch
    /\ pc' = "stage2"
    /\ UNCHANGED << disk, ebooks_files, calibre_files, use_gpu, processed_files,
                    gpu_available, gpu_threshold, gpu_processor, files_to_process,
                    calibre_collection, stage1_unique, stage2_candidates,
                    stage2_unique, stage3_candidates, stage3_unique, unique_files,
                    deduplicated_files, duplicates_report, found, preprocess_log,
                    second_run, output_csv, full_hash_log >>

\* lines 108-164: the library records of a candidate's key are categorised,
\* the GPU group is hashed by the GPU processor in the caller's thread, and
\* the CPU group is handed to the CPU processor
OrderHashStage3Calibre ==
    /\ pc = "hash3"
    /\ batch.state = "idle"
    /\ LET r == HashStage3FilesOf(rec, ebooks_collection, calibre_collection,
                                  stage3_candidates, gpu_processor, gpu_available,
                                  gpu_threshold, processed_files, {})
           gpu_files == IF r.calibre_categorized.gpu # <<>> /\ gpu_processor
                        THEN r.calibre_categorized.gpu ELSE <<>>
       IN  \E failed \in FailureSets(gpu_files) :
              LET hashes == GpuHashBatch(gpu_files, "full", failed)
                  c == StoreFullHashes(r.calibre_categorized.heap, calibre_collection,
                                       gpu_files, hashes, 1)
              IN  /\ rec' = c.heap
                  /\ calibre_collection' = c.coll
                  /\ hash_calls' = [hash_calls EXCEPT !.gpu_full = Count(@, gpu_files)]
                  /\ empty_results' = empty_results \cup { <<id, "full">> : id \in failed }
                  /\ full_hash_log' =
                        LogStored(full_hash_log, "calibre", Written(gpu_files, hashes))
                  /\ preprocess_log' = Append(preprocess_log,
                        LoggedCall("calibre", r.calibre_categorized, gpu_available,
                                   gpu_threshold, hash_calls))
                  /\ batch' = RunningBatch(r.calibre_categorized.cpu, "full")
    /\ pc' = "hash3_calibre"
    /\ UNCHANGED << disk, ebooks_files, calibre_files, use_gpu, processed_files,
                    gpu_available, gpu_threshold, gpu_processor, files_to_process,
                    ebooks_collection, stage1_unique, stage2_candidates,
                    stage2_unique, stage3_candidates, stage3_unique, unique_files,
                    deduplicated_files, duplicates_report, found, second_run, output_csv >>

\* lines 165-185: the library's CPU results are stored, the candidates' GPU
\* group is hashed by the GPU processor, and their CPU group is handed to the
\* CPU processor
OrderHashStage3Ebooks ==
    /\ pc = "hash3_calibre"
    /\ batch.state = "returned"
    /\ LET c == StoreFullHashes(rec, calibre_collection, batch.files, batch.results, 1)
           onGpu(id) == InGpuGroup(rec[id], gpu_processor)
           onCpu(id) == InCpuGroup(rec[id], gpu_processor)
           stage3_gpu_files == SelectSeq(stage3_candidates, onGpu)
           stage3_cpu_files == SelectSeq(stage3_candidates, onCpu)
       IN  \E failed \in FailureSets(stage3_gpu_files) :
              LET hashes == GpuHashBatch(stage3_gpu_files, "full", failed)
                  e == StoreFullHashes(c.heap, ebooks_collection, stage3_gpu_files,
                                       hashes, 1)
              IN  /\ rec' = e.heap
                  /\ calibre_collection' = c.coll
                  /\ ebooks_collection' = e.coll
                  /\ hash_calls' = [hash_calls EXCEPT
                                      !.cpu_full = Count(@, batch.files),
                                      !.gpu_full = Count(@, stage3_gpu_files)]
                  /\ empty_results' = empty_results
                        \cup { <<id, "full">> : id \in BatchFailed \cup failed }
                  /\ full_hash_log' =
                        LogStored(LogStored(full_hash_log, "calibre",
                                            Written(batch.files, batch.results)),
                                  "ebooks", Written(stage3_gpu_files, hashes))
                  /\ batch' = RunningBatch(stage3_cpu_files, "full")
    /\ pc' = "hash3_ebooks"
    /\ UNCHANGED << disk, ebooks_files, calibre_files, use_gpu, processed_files,
                    gpu_available, gpu_threshold, gpu_processor, files_to_process,
                    stage1_unique, stage2_candidates, stage2_unique,
                    stage3_candidates, stage3_unique, unique_files,
                    deduplicated_files, duplicates_report, found, preprocess_log,
                    second_run, output_csv >>

\* lines 186-192: the candidates' CPU results are stored and hash_stage3_files
\* returns
OrderHashStage3Return ==
    /\ pc = "hash3_ebooks"
    /\ batch.state = "returned"
    /\ LET e == StoreFullHashes(rec, ebooks_collection, batch.files, batch.results, 1)
       IN  /\ rec' = e.heap
           /\ ebooks_collection' = e.coll
    /\ hash_calls' = [hash_calls EXCEPT !.cpu_full = Count(@, batch.files)]
    /\ empty_results' = empty_results \cup { <<id, "full">> : id \in BatchFailed }
    /\ full_hash_log' =
          LogStored(full_hash_log, "ebooks", Written(batch.files, batch.results))
    /\ batch' = IdleBatch
    /\ pc' = "stage3"
    /\ UNCHANGED << disk, ebooks_files, calibre_files, use_gpu, processed_files,
                    gpu_available, gpu_threshold, gpu_processor, files_to_process,
                    calibre_collection, stage1_unique, stage2_candidates,
                    stage2_unique, stage3_candidates, stage3_unique, unique_files,
                    deduplicated_files, duplicates_report, found, preprocess_log,
                    second_run, output_csv >>

NextOrder ==
    \/ Categorize
    \/ AddEbooksFile
    \/ AddCalibreFile
    \/ ProbeGpu
    \/ Stage1
    \/ OrderHashStage2Calibre
    \/ OrderHashStage2Ebooks
    \/ OrderHashStage2Return
    \/ Stage2
    \/ OrderHashStage3Calibre
    \/ OrderHashStage3Ebooks
    \/ OrderHashStage3Return
    \/ Stage3
    \/ Dedup
    \/ WorkerFinish
    \/ Collect
    \/ BatchReturn

SpecOrder == Init /\ [][NextOrder]_vars

\* the step of run_analyze a position belongs to
Phase(at) ==
    IF at \in { "hash2", "hash2_calibre", "hash2_ebooks" } THEN "hash2"
    ELSE IF at \in { "hash3", "hash3_calibre", "hash3_ebooks" } THEN "hash3"
    ELSE at

\* the order of the steps: each hashing step follows the comparator that
\* produced its candidates, and a comparator with no candidates goes to dedup
StepOrder ==
    { <<"categorize", "build">>, <<"build", "stage1">>,
      <<"stage1", "hash2">>, <<"stage1", "dedup">>,
      <<"hash2", "stage2">>,
      <<"stage2", "hash3">>, <<"stage2", "dedup">>,
      <<"hash3", "stage3">>,
      <<"stage3", "dedup">>, <<"dedup", "done">> }

Comparators == { "stage1", "stage2", "stage3" }

\* a task of the current hash_batch call has not been collected
TaskOutstanding == \E k \in 1..Len(batch.task) : batch.task[k] # "collected"

\* the lookups of both collections
Lookups(coll) == << coll.by_size, coll.by_size_and_1k, coll.by_full_hash >>

\* C26: run_analyze goes through Stage 1, prefix hashing, Stage 2, full
\* hashing, Stage 3 and deduplication in that order; a hashing step is left
\* only when its hash_batch call has returned with every worker task
\* collected; and no lookup of either collection changes during a compare().
C26_StagesInOrder ==
    [][ /\ Phase(pc') # Phase(pc) => <<Phase(pc), Phase(pc')>> \in StepOrder
        /\ (Phase(pc) \in { "hash2", "hash3" } /\ Phase(pc') # Phase(pc)) =>
              /\ batch.state = "returned"
              /\ ~TaskOutstanding
              /\ \A i \in 1..Len(batch.files) : batch.results[i] # NoneVal
        /\ pc' \in Comparators \cup { "dedup" } => batch'.state = "idle"
        /\ pc \in Comparators =>
              /\ Lookups(ebooks_collection') = Lookups(ebooks_collection)
              /\ Lookups(calibre_collection') = Lookups(calibre_collection)
              /\ batch.state = "idle"
    ]_vars

\* the run is finished after both hashing steps ran worker tasks, the last of
\* them for two files, and all three comparators ran
C26_Witness ==
    /\ pc = "done"
    /\ \E id \in Range(stage3_candidates) : hash_calls.cpu_full[id] > 0
    /\ \E id \in Range(calibre_collection.files) : hash_calls.cpu_1k[id] > 0
    /\ Len(stage2_candidates) = 2
    /\ stage3_unique # <<>>

\* the number of times the record was handed to a backend for its full hash
FullSubmissions(id) == hash_calls.cpu_full[id] + hash_calls.gpu_full[id]

\* C27: within one run no record is handed twice to a backend for the same
\* stage, every record Stage 2 passed on is handed to exactly one of the GPU
\* and the CPU backend by hash_stage3_files, and a hash field that has been
\* set is never given another value.
C27_HashedAtMostOnce ==
    [][ /\ \A id \in Ids :
              /\ hash_calls'.cpu_1k[id] <= 1
              /\ hash_calls'.cpu_full[id] + hash_calls'.gpu_full[id] <= 1
              /\ rec[id].first_1k_hash # NoneVal =>
                    rec'[id].first_1k_hash = rec[id].first_1k_hash
              /\ rec[id].full_hash # NoneVal => rec'[id].full_hash = rec[id].full_hash
        /\ (Phase(pc) = "hash3" /\ Phase(pc') # "hash3") =>
              \A id \in Range(stage3_candidates) :
                  /\ hash_calls'.cpu_full[id] + hash_calls'.gpu_full[id] = 1
                  /\ InGpuGroup(rec[id], gpu_processor) # InCpuGroup(rec[id], gpu_processor)
    ]_vars

\* a finished run in which the candidate and the library record of its key
\* were each prefix-hashed once by the CPU backend and full-hashed once by the
\* GPU backend alone, and carry both digests
C27_Witness ==
    /\ pc = "done"
    /\ \E a \in Range(stage3_candidates), b \in Range(calibre_collection.files) :
          /\ hash_calls.gpu_full[a] = 1 /\ hash_calls.cpu_full[a] = 0
          /\ hash_calls.gpu_full[b] = 1 /\ hash_calls.cpu_full[b] = 0
          /\ hash_calls.cpu_1k[a] = 1 /\ hash_calls.cpu_1k[b] = 1
          /\ rec[a].full_hash = Sha256(AllBytes(disk[a]))
          /\ rec[b].full_hash = Sha256(AllBytes(disk[b]))
          /\ rec[a].first_1k_hash = Sha256(First1K(disk[a]))

\* C28 as stated: when a run with --resume has finished, every path the resume
\* CSV named before the run is still in a row of the output CSV, next to the
\* files the run found unique.
C28_ResumeRowsKept ==
    pc = "done" =>
        /\ processed_files \subseteq GetProcessedFiles(output_csv)
        /\ \A id \in Range(deduplicated_files) : Str(id) \in GetProcessedFiles(output_csv)

\* the library holds a file with the same bytes as the datalake file
InLibrary(e) == \E c \in Range(calibre_collection.files) : disk[c] = disk[e]

\* C29: when the run has merged the three unique lists and no hash came back
\* empty, the merged list holds exactly the datalake records whose bytes no
\* library record has.
C29_FunnelEquivalence ==
    (pc = "done" /\ empty_results = {}) =>
        Range(unique_files) = { e \in Range(ebooks_collection.files) : ~InLibrary(e) }

\* a finished run without an empty hash in which Stage 3 dropped a datalake
\* record with the bytes of a library record and kept one that differs from
\* it only after the first 1024 bytes
C29_Witness ==
    /\ pc = "done"
    /\ empty_results = {}
    /\ stage3_unique # <<>>
    /\ \E e \in Range(stage3_candidates) : InLibrary(e) /\ e \notin Range(unique_files)
    /\ \E e \in Range(stage3_unique) : ~InLibrary(e)

\* C30 as stated: when the run has finished, every datalake record of the
\* collection that is not in the final output has the bytes of a library
\* record or of a record that is in the final output.
C30_NoFileSilentlyDropped ==
    pc = "done" =>
        \A e \in Range(ebooks_collection.files) \ Range(deduplicated_files) :
            \/ InLibrary(e)
            \/ \E k \in Range(deduplicated_files) : disk[k] = disk[e]

\* C13: a file that cannot be opened or read (its worker returns b"" after an
\* OSError, or its task raises) has b"" at its own position of the returned
\* list, and every other file of the batch has its digest there; the call
\* returns a full list.
C13_UnreadableFileYieldsEmpty ==
    batch.state = "returned" =>
        /\ Len(batch.results) = Len(batch.files)
        /\ \A i \in 1..Len(batch.files) :
              /\ batch.outcome[i] \in { EmptyBytes, RaisedVal }
                    => batch.results[i] = EmptyBytes
              /\ batch.outcome[i] \notin { EmptyBytes, RaisedVal }
                    => batch.results[i] = WorkerFunc(batch.stage, batch.files[i], {})

\* a returned batch with an unreadable file, a file whose task raised and a
\* file that was hashed
C13_Witness ==
    /\ batch.state = "returned"
    /\ \E i, j, k \in 1..Len(batch.files) :
          /\ batch.outcome[i] = EmptyBytes
          /\ batch.outcome[j] = RaisedVal
          /\ batch.results[k] > EmptyBytes

\* --------------------------------------------- hashing/gpu.py: GPUHashProcessor
\* the longest file, the largest free device memory, the largest chunk_size of
\* a processor and the longest batch handed to the GPU backend
MaxFileLen == 2
MaxMemory == 3
MaxChunk == 2
MaxGpuBatch == 2

\* f.read(1024 * 1024) of the CPU worker and f.read(1024), in model bytes
CpuChunkSize == 2
PrefixSize == 1

ByteValues == { 1, 2 }

\* the files of the backend's callers, as the bytes they hold
GpuFiles == SeqsUpTo(ByteValues, MaxFileLen)

\* the files of a batch: one of every length
GpuBatchFiles == { [ i \in 1..n |-> 1 ] : n \in 0..MaxFileLen }

\* what can go wrong while one file is processed
Faults == { "none", "ImportError", "RuntimeError", "OSError", "MemoryError" }

Min(a, b) == IF a <= b THEN a ELSE b

\* the data a hash object has been updated with, as a number
RECURSIVE Encode(_)
Encode(data) ==
    IF data = <<>> THEN 0
    ELSE Encode(SubSeq(data, 1, Len(data) - 1)) * 3 + data[Len(data)]

\* hashlib.sha256() updated with data, then digest()
Sha256Bytes(data) == Sha256(Encode(data))

\* while True: chunk = f.read(chunk_size); if not chunk: break; update(chunk)
RECURSIVE ReadInChunks(_, _, _)
ReadInChunks(data, pos, chunk_size) ==
    LET chunk == SubSeq(data, pos, Min(pos + chunk_size - 1, Len(data)))
    IN  IF chunk = <<>> THEN <<>>
        ELSE chunk \o ReadInChunks(data, pos + Len(chunk), chunk_size)

\* CPUHashProcessor.hash_first_1k / _hash_first_1k_worker on the bytes of a file
CpuHashFirst1k(data, fault) ==
    IF fault = "OSError" THEN EmptyBytes
    ELSE Sha256Bytes(SubSeq(data, 1, Min(PrefixSize, Len(data))))

\* CPUHashProcessor.hash_full_file / _hash_full_file_worker on the bytes of a file
CpuHashFullFile(data, fault) ==
    IF fault = "OSError" THEN EmptyBytes
    ELSE Sha256Bytes(ReadInChunks(data, 1, CpuChunkSize))

\* CPUHashProcessor.hash_batch, lines 73-97: ValueError for an unknown stage
CpuHashBatchOf(files, stage, faults) ==
    IF stage \notin { "1k", "full" }
    THEN [ raised |-> TRUE, results |-> <<>> ]
    ELSE [ raised |-> FALSE,
           results |-> [ i \in 1..Len(files) |->
                           IF stage = "1k" THEN CpuHashFirst1k(files[i], faults[i])
                           ELSE CpuHashFullFile(files[i], faults[i]) ] ]

\* usable_memory = int(available_memory * 0.8)
UsableMemory(available_memory) == (available_memory * 8) \div 10

\* the bytes hash_full_file feeds to the hash object: the whole file when it
\* fits the usable memory, otherwise what the chunk loop reads
Staged(data, available_memory, chunk_size) ==
    LET usable_memory == UsableMemory(available_memory)
    IN  IF Len(data) <= usable_memory THEN data
        ELSE ReadInChunks(data, 1, Min(chunk_size, usable_memory))

\* cp.asarray(...) is called: once in the whole-file branch, once per chunk read
Transferred(data, available_memory, chunk_size) ==
    \/ Len(data) <= UsableMemory(available_memory)
    \/ Staged(data, available_memory, chunk_size) # <<>>

\* an exception is raised inside the try block of hash_full_file
FaultRaised(data, available_memory, chunk_size, fault) ==
    /\ fault # "none"
    /\ fault = "MemoryError" => Transferred(data, available_memory, chunk_size)

\* GPUHashProcessor.hash_full_file: RaisedVal when an exception leaves it
GpuHashFullFileOf(data, available, available_memory, chunk_size, fault) ==
    IF ~available THEN CpuHashFullFile(data, fault)
    ELSE IF ~FaultRaised(data, available_memory, chunk_size, fault)
    THEN Sha256Bytes(Staged(data, available_memory, chunk_size))
    ELSE IF fault \in { "ImportError", "RuntimeError", "OSError" }
    THEN CpuHashFullFile(data, fault)
    ELSE RaisedVal

\* GPUHashProcessor.hash_batch
GpuHashBatchOf(files, stage, available, available_memory, chunk_size, faults) ==
    IF stage = "1k" THEN CpuHashBatchOf(files, stage, faults)
    ELSE IF ~available THEN CpuHashBatchOf(files, stage, faults)
    ELSE [ raised |-> FALSE,
           results |-> [ i \in 1..Len(files) |->
                           Collected(GpuHashFullFileOf(files[i], available,
                                        available_memory, chunk_size, faults[i])) ] ]

InitGpu ==
    /\ disk = [ id \in Ids |-> NoContent ]
    /\ rec = [ id \in Ids |-> NewEbookFile(NoContent) ]
    /\ ebooks_files = <<>>
    /\ calibre_files = <<>>
    /\ use_gpu = TRUE
    /\ processed_files = {}
    /\ gpu_available = FALSE
    /\ gpu_threshold = NoneVal
    /\ gpu_processor = FALSE
    /\ files_to_process = <<>>
    /\ ebooks_collection = EmptyCollection
    /\ calibre_collection = EmptyCollection
    /\ stage1_unique = <<>>
    /\ stage2_candidates = <<>>
    /\ stage2_unique = <<>>
    /\ stage3_candidates = <<>>
    /\ stage3_unique = <<>>
    /\ unique_files = <<>>
    /\ deduplicated_files = <<>>
    /\ duplicates_report = <<>>
    /\ hash_calls = [ cpu_1k |-> NoCalls, cpu_full |-> NoCalls, gpu_full |-> NoCalls ]
    /\ empty_results = {}
    /\ found = <<>>
    /\ preprocess_log = <<>>
    /\ second_run = NoRun
    /\ output_csv = NoCsv
    /\ full_hash_log = NoWrites
    /\ pc = "gpu"
    /\ batch = [ state |-> "idle" ]

\* a call of GPUHashProcessor.hash_full_file(file)
GpuHashFullFileCall ==
    /\ batch.state = "idle"
    /\ \E data \in GpuFiles, available \in BOOLEAN, available_memory \in 0..MaxMemory,
          chunk_size \in 1..MaxChunk, fault \in Faults :
          LET result == GpuHashFullFileOf(data, available, available_memory,
                                          chunk_size, fault)
          IN  batch' = [ op |-> "hash_full_file",
                         backend |-> "gpu",
                         stage |-> "full",
                         files |-> << data >>,
                         faults |-> << fault >>,
                         available |-> available,
                         available_memory |-> available_memory,
                         chunk_size |-> chunk_size,
                         results |-> IF result = RaisedVal THEN <<>> ELSE << result >>,
                         state |-> IF result = RaisedVal THEN "raised" ELSE "returned" ]
    /\ UNCHANGED pipelineVars

\* a call of GPUHashProcessor.hash_batch(files, stage)
GpuHashBatchCall ==
    /\ batch.state = "idle"
    /\ \E files \in SeqsUpTo(GpuBatchFiles, MaxGpuBatch),
          stage \in { "1k", "full", "other" }, available \in BOOLEAN,
          available_memory \in 0..MaxMemory, chunk_size \in 1..MaxChunk :
       \E faults \in [ 1..Len(files) -> Faults ] :
          LET r == GpuHashBatchOf(files, stage, available, available_memory,
                                  chunk_size, faults)
          IN  batch' = [ op |-> "hash_batch",
                         backend |-> "gpu",
                         stage |-> stage,
                         files |-> files,
                         faults |-> faults,
                         available |-> available,
                         available_memory |-> available_memory,
                         chunk_size |-> chunk_size,
                         results |-> r.results,
                         state |-> IF r.raised THEN "raised" ELSE "returned" ]
    /\ UNCHANGED pipelineVars

\* a call of CPUHashProcessor.hash_batch(files, stage)
CpuHashBatchCall ==
    /\ batch.state = "idle"
    /\ \E files \in SeqsUpTo(GpuBatchFiles, MaxGpuBatch),
          stage \in { "1k", "full", "other" } :
       \E faults \in [ 1..Len(files) -> { "none", "OSError" } ] :
          LET r == CpuHashBatchOf(files, stage, faults)
          IN  batch' = [ op |-> "hash_batch",
                         backend |-> "cpu",
                         stage |-> stage,
                         files |-> files,
                         faults |-> faults,
                         available |-> FALSE,
                         available_memory |-> 0,
                         chunk_size |-> CpuChunkSize,
                         results |-> r.results,
                         state |-> IF r.raised THEN "raised" ELSE "returned" ]
    /\ UNCHANGED pipelineVars

NextGpu ==
    \/ GpuHashFullFileCall
    \/ GpuHashBatchCall
    \/ CpuHashBatchCall

SpecGpu == InitGpu /\ [][NextGpu]_vars

\* C11 as stated: when nothing fails, GPUHashProcessor.hash_full_file returns
\* the digest CPUHashProcessor.hash_full_file returns for the same file, for
\* every accelerator state: unavailable, or available with any amount of free
\* device memory and any staging.
C11_GpuCpuEquivalence ==
    (batch.state # "idle" /\ batch.op = "hash_full_file" /\ batch.faults[1] = "none") =>
        /\ batch.state = "returned"
        /\ batch.results[1] = CpuHashFullFile(batch.files[1], "none")

\* C12 as stated: in hash_batch(files, "full") of an available processor, a
\* file whose GPU processing raised gets the CPU backend's result for that
\* file, and every file of the batch has a result.
C12_GpuFailureFallsBackToCpu ==
    (batch.state # "idle" /\ batch.op = "hash_batch" /\ batch.backend = "gpu"
        /\ batch.stage = "full" /\ batch.available) =>
        /\ batch.state = "returned"
        /\ Len(batch.results) = Len(batch.files)
        /\ \A i \in 1..Len(batch.files) :
              FaultRaised(batch.files[i], batch.available_memory, batch.chunk_size,
                          batch.faults[i])
                 => batch.results[i] = CpuHashFullFile(batch.files[i], batch.faults[i])

\* C14 as stated: hash_batch with a stage other than "1k" and "full" raises
\* and computes no hash, on the CPU backend and on the GPU backend with or
\* without the accelerator.
C14_UnknownStageRaises ==
    (batch.state # "idle" /\ batch.op = "hash_batch"
        /\ batch.stage \notin { "1k", "full" }) =>
        /\ batch.state = "raised"
        /\ batch.results = <<>>

\* ------------------------------------------- preprocessing.py: preprocess_files
\* the largest threshold a caller passes
MaxThreshold == 3

\* the arguments of a call: a list of records, the availability flag, the
\* threshold (None included) and the processed set
InitPre ==
    /\ \E e \in SeqsUpTo(Contents, MaxEbooks) :
          /\ disk = [ id \in Ids |-> IF id \in 1..Len(e) THEN e[id] ELSE NoContent ]
          /\ ebooks_files = [ i \in 1..Len(e) |-> i ]
          /\ processed_files \in SUBSET { Str(id) : id \in 1..Len(e) }
    /\ rec = [ id \in Ids |-> NewEbookFile(disk[id]) ]
    /\ gpu_available \in BOOLEAN
    /\ gpu_threshold \in { NoneVal } \cup 0..MaxThreshold
    /\ calibre_files = <<>>
    /\ use_gpu = FALSE
    /\ gpu_processor = FALSE
    /\ files_to_process = <<>>
    /\ ebooks_collection = EmptyCollection
    /\ calibre_collection = EmptyCollection
    /\ stage1_unique = <<>>
    /\ stage2_candidates = <<>>
    /\ stage2_unique = <<>>
    /\ stage3_candidates = <<>>
    /\ stage3_unique = <<>>
    /\ unique_files = <<>>
    /\ deduplicated_files = <<>>
    /\ duplicates_report = <<>>
    /\ hash_calls = [ cpu_1k |-> NoCalls, cpu_full |-> NoCalls, gpu_full |-> NoCalls ]
    /\ empty_results = {}
    /\ found = <<>>
    /\ preprocess_log = <<>>
    /\ second_run = NoRun
    /\ output_csv = NoCsv
    /\ full_hash_log = NoWrites
    /\ pc = "preprocess"
    /\ batch = [ state |-> "idle" ]

\* preprocess_files(files, gpu_available, gpu_threshold, processed_files)
PreprocessCall ==
    /\ pc = "preprocess"
    /\ batch.state = "idle"
    /\ LET categorized == PreprocessFiles(rec, ebooks_files, gpu_available,
                                          gpu_threshold, processed_files)
       IN  /\ rec' = categorized.heap
           /\ batch' = [ state |-> "returned",
                         op |-> "preprocess_files",
                         gpu |-> categorized.gpu,
                         cpu |-> categorized.cpu,
                         skip |-> categorized.skip ]
    /\ UNCHANGED << disk, ebooks_files, calibre_files, use_gpu, processed_files,
                    gpu_available, gpu_threshold, gpu_processor, files_to_process,
                    ebooks_collection, calibre_collection, stage1_unique,
                    stage2_candidates, stage2_unique, stage3_candidates,
                    stage3_unique, unique_files, deduplicated_files,
                    duplicates_report, hash_calls, empty_results, found, preprocess_log, second_run, output_csv, full_hash_log, pc >>

NextPre == PreprocessCall

SpecPre == InitPre /\ [][NextPre]_vars

\* the threshold in effect for a call: the caller's, or the default the
\* function sets when the caller passes None and the GPU is available
ThresholdInEffect ==
    IF gpu_threshold = NoneVal /\ gpu_available THEN DefaultGpuThreshold
    ELSE gpu_threshold

\* C15: after preprocess_files, a record that was not skipped is marked "gpu"
\* and listed under gpu if and only if gpu_available is true, a threshold is
\* in effect and file_size >= that threshold; otherwise it is marked "cpu"
\* and listed under cpu. So every record marked "gpu" is at or above the
\* threshold in effect. A skipped record is in neither list.
C15_GpuIffAboveThreshold ==
    batch.state = "returned" =>
        \A id \in Range(ebooks_files) :
            LET eligible == /\ gpu_available
                            /\ ThresholdInEffect # NoneVal
                            /\ rec[id].file_size >= ThresholdInEffect
            IN  IF Str(id) \in processed_files
                THEN /\ id \in Range(batch.skip)
                     /\ id \notin Range(batch.gpu) \cup Range(batch.cpu)
                ELSE /\ id \notin Range(batch.skip)
                     /\ rec[id].processing_method = "gpu" <=> eligible
                     /\ rec[id].processing_method = "cpu" <=> ~eligible
                     /\ id \in Range(batch.gpu) <=> eligible
                     /\ id \in Range(batch.cpu) <=> ~eligible

\* one call marked a record "gpu" and left a smaller record on the CPU
C15_Witness ==
    /\ batch.state = "returned"
    /\ gpu_available
    /\ \E a, b \in Range(ebooks_files) :
          /\ rec[a].processing_method = "gpu"
          /\ rec[b].processing_method = "cpu"
          /\ rec[b].file_size < ThresholdInEffect
          /\ rec[a].file_size >= ThresholdInEffect

\* ------------------------------------------------- copier.py: FileCopier
\* the number of rows of the CSV and the number of distinct filenames
MaxCopyFiles == 2
MaxNames == 2

\* a filename of the flat target folder: the filenames of the CSV rows, and
\* the names _resolve_filename_conflict makes of them
CsvNames == 1..MaxNames
TargetNames == 1..(MaxNames * (1 + MaxCopyFiles))

\* the content of a target file: none, what was there before the copy, or a
\* copy of a source file
NoFile == 0
ExistingBytes == 2
SourceBytes == 1

\* a row of the CSV as load_files_from_csv returns it: the filename and
\* whether full_path exists
CsvRows == [ filename : CsvNames, source_exists : BOOLEAN ]

ConflictModes == { "rename", "skip", "overwrite" }

\* what mkdir and shutil.copy2 can do for one file: the directory cannot be
\* made, the copy raises, the copy leaves no file or an empty one, or it works
FsOutcomes ==
    { "mkdir PermissionError", "mkdir OSError", "copy PermissionError",
      "copy OSError", "copy Exception", "vanished", "empty", "copied" }

\* the new names _resolve_filename_conflict can return for a taken name
ResolvedNames(filename) == { filename + MaxNames * k : k \in 1..MaxCopyFiles }

\* the target path copy_file can work with: the flat one, or in 'rename' mode
\* a new name that does not exist when the flat one does
TargetPaths(target, mode, filename) ==
    IF target[filename] # NoFile /\ mode = "rename"
    THEN { n \in ResolvedNames(filename) : target[n] = NoFile }
    ELSE { filename }

\* a result of copy_file: success, the target it names, the kind of message,
\* and whether the message contains "skipping": the skip message does, and
\* every message but the successful one quotes a path (or an exception that
\* quotes one), which contains the word when quoted says so
Result(success, target, kind, quoted) ==
    [ success |-> success,
      target |-> target,
      kind |-> kind,
      says_skipping |-> (kind = "exists_skipping") \/ (kind # "copied" /\ quoted) ]

\* FileCopier.copy_file(file, dry_run): the result and the target folder
\* after the call; target_path is the path after the conflict handling, fs
\* is what the file system does, quoted says that the paths contain "skipping"
CopyFileOf(target, mode, dry_run, file, target_path, fs, quoted) ==
    LET flat == file.filename
        conflict == target[flat] # NoFile
        same(result) == [ result |-> result, target |-> target ]
    IN  IF ~file.source_exists
        THEN same(Result(FALSE, NoneVal, "source_missing", quoted))
        ELSE IF conflict /\ mode = "skip"
        THEN same(Result(FALSE, flat, "exists_skipping", quoted))
        ELSE IF dry_run
        THEN same(Result(TRUE, target_path, "would_copy", quoted))
        ELSE IF fs \in { "mkdir PermissionError", "mkdir OSError" }
        THEN same(Result(FALSE, target_path, "mkdir_failed", quoted))
        ELSE IF fs \in { "copy PermissionError", "copy OSError", "copy Exception" }
        THEN same(Result(FALSE, target_path, "copy_failed", quoted))
        ELSE IF fs = "vanished"
        THEN [ result |-> Result(FALSE, target_path, "target_missing", quoted),
               target |-> [target EXCEPT ![target_path] = NoFile] ]
        ELSE IF fs = "empty"
        THEN [ result |-> Result(FALSE, target_path, "target_empty", quoted),
               target |-> [target EXCEPT ![target_path] = NoFile] ]
        ELSE [ result |-> Result(TRUE, target_path, "copied", quoted),
               target |-> [target EXCEPT ![target_path] = SourceBytes] ]

\* a copy_all that counts every unsuccessful result as failed
CountResultNoSkips(stats, result) ==
    LET counted == [stats EXCEPT !.results = Append(@, result)]
    IN  IF result.success THEN [counted EXCEPT !.success = @ + 1]
        ELSE [counted EXCEPT !.failed = @ + 1]

\* copy_all, lines 230-237: the result is appended and counted
CountResult(stats, result) ==
    LET counted == [stats EXCEPT !.results = Append(@, result)]
    IN  IF result.success THEN [counted EXCEPT !.success = @ + 1]
        ELSE IF result.says_skipping THEN [counted EXCEPT !.skipped = @ + 1]
        ELSE [counted EXCEPT !.failed = @ + 1]

\* run_copy, line 409
ExitCode(stats) == IF stats.failed = 0 THEN 0 ELSE 1

\* run_copy has validated its paths and constructed the copier: the CSV rows,
\* the files of the target folder, the conflict mode, --dry-run, and whether
\* the word "skipping" occurs in the paths of the run
InitCopy ==
    /\ disk = [ id \in Ids |-> NoContent ]
    /\ rec = [ id \in Ids |-> NewEbookFile(NoContent) ]
    /\ ebooks_files = <<>>
    /\ calibre_files = <<>>
    /\ use_gpu = FALSE
    /\ processed_files = {}
    /\ gpu_available = FALSE
    /\ gpu_threshold = NoneVal
    /\ gpu_processor = FALSE
    /\ files_to_process = <<>>
    /\ ebooks_collection = EmptyCollection
    /\ calibre_collection = EmptyCollection
    /\ stage1_unique = <<>>
    /\ stage2_candidates = <<>>
    /\ stage2_unique = <<>>
    /\ stage3_candidates = <<>>
    /\ stage3_unique = <<>>
    /\ unique_files = <<>>
    /\ deduplicated_files = <<>>
    /\ duplicates_report = <<>>
    /\ hash_calls = [ cpu_1k |-> NoCalls, cpu_full |-> NoCalls, gpu_full |-> NoCalls ]
    /\ empty_results = {}
    /\ found = <<>>
    /\ preprocess_log = <<>>
    /\ second_run = NoRun
    /\ output_csv = NoCsv
    /\ full_hash_log = NoWrites
    /\ pc = "copy"
    /\ \E files \in SeqsUpTo(CsvRows, MaxCopyFiles), present \in SUBSET CsvNames,
          mode \in ConflictModes, dry_run \in BOOLEAN, quoted \in BOOLEAN :
          batch = [ state |-> "idle",
                    op |-> "copy_all",
                    conflict_handling |-> mode,
                    dry_run |-> dry_run,
                    skipping_in_path |-> quoted,
                    csv |-> files,
                    before |-> [ n \in TargetNames |->
                                   IF n \in present THEN ExistingBytes ELSE NoFile ],
                    target |-> [ n \in TargetNames |->
                                   IF n \in present THEN ExistingBytes ELSE NoFile ],
                    conflicts |-> <<>>,
                    touched |-> <<>>,
                    stats |-> [ total |-> 0, success |-> 0, failed |-> 0,
                                skipped |-> 0, results |-> <<>> ],
                    exit |-> NoneVal ]

\* copy_all, lines 224-226: the rows are loaded and the counters set to zero
CopyAllStart ==
    /\ pc = "copy"
    /\ batch.state = "idle"
    /\ batch' = [batch EXCEPT !.state = "copying",
                              !.stats.total = Len(batch.csv)]
    /\ UNCHANGED pipelineVars

\* copy_all, lines 228-237: copy_file for the next row, and its result counted;
\* conflicts records whether the flat target existed when the row was reached
\* and touched the target folder entries the call changed
CopyAllStep ==
    /\ pc = "copy"
    /\ batch.state = "copying"
    /\ Len(batch.stats.results) < Len(batch.csv)
    /\ LET file == batch.csv[Len(batch.stats.results) + 1]
       IN  \E target_path \in TargetPaths(batch.target, batch.conflict_handling,
                                           file.filename), fs \in FsOutcomes :
              LET r == CopyFileOf(batch.target, batch.conflict_handling,
                                  batch.dry_run, file, target_path, fs,
                                  batch.skipping_in_path)
              IN  batch' = [batch EXCEPT
                        !.target = r.target,
                        !.conflicts = Append(@, batch.target[file.filename] # NoFile),
                        !.touched = Append(@,
                            { n \in TargetNames : r.target[n] # batch.target[n] }),
                        !.stats = CountResult(@, r.result)]
    /\ UNCHANGED pipelineVars

\* copy_all returns the statistics and run_copy its exit code
CopyAllReturn ==
    /\ pc = "copy"
    /\ batch.state = "copying"
    /\ Len(batch.stats.results) = Len(batch.csv)
    /\ batch' = [batch EXCEPT !.state = "returned", !.exit = ExitCode(batch.stats)]
    /\ UNCHANGED pipelineVars

NextCopy ==
    \/ CopyAllStart
    \/ CopyAllStep
    \/ CopyAllReturn

SpecCopy == InitCopy /\ [][NextCopy]_vars

\* the rows copy_all has handled in 'skip' mode whose flat target existed
SkipConflicts ==
    IF batch.op = "copy_all" /\ batch.conflict_handling = "skip"
    THEN { k \in 1..Len(batch.stats.results) : batch.conflicts[k] }
    ELSE {}

====
